---- MODULE Spec2Model ----
(***************************************************************************)
(* A model of the text pipeline of lex-pdftotext: TextNormalizer           *)
(* (src/processors/text_normalizer.py), the RAG chunker                    *)
(* MarkdownFormatter.format_for_rag (src/formatters/markdown_formatter.py),*)
(* IndexGenerator (src/lex_pdftotext/formatters/index_generator.py) and    *)
(* the three runs that read a PDF (worker task, command line, MCP server), *)
(* and of what stands around it: the job API with its worker and Redis     *)
(* (api/main.py, worker/tasks.py), the rate limit (api/middleware.py), the *)
(* deletion of API keys (api/routes_keys.py), LocalStorage                 *)
(* (storage/local.py), and save_to_file and format_with_sections of        *)
(* MarkdownFormatter.                                                      *)
(*                                                                         *)
(* A text is a sequence of characters and a character is a one-character   *)
(* string.  Every regular expression and str method of the source is       *)
(* written out as an operator on such sequences.                           *)
(***************************************************************************)
EXTENDS Integers, Sequences, FiniteSets, TLC

VARIABLES
    nIn,        \* normalize: the argument of the running call
    nText,      \* normalize: the local `text` after the stages run so far
    nPrev,      \* normalize: `text` as it entered the stage that ran last
    nPc,        \* normalize: the stage to run next, or "done"
    nPass,      \* 1: normalize(x) is running, 2: normalize(normalize(x))
    nOut1,      \* the value normalize(x) returned, once it has
    ragText,    \* format_for_rag: the argument text
    ragSize,    \* format_for_rag: the argument chunk_size
    ragMeta,    \* format_for_rag: the argument metadata
    ragChunks,  \* format_for_rag: the list returned
    ragPc,      \* "call" before format_for_rag ran, "done" after it
                \* returned, "mutated" once the caller wrote to a snapshot
    ragHeap,    \* the dicts format_for_rag created, by address
    ragMuts,    \* how many times the caller wrote to a snapshot
    idxText,    \* index: the text the ids are looked for in
    idxIds,     \* index: what extract_document_ids returned
    idxPositions, \* index: what extract_document_ids_with_positions returned
    idxTable,   \* index: what generate_index_table returned
    idxType,    \* index: what detect_type returned for idxText
    idxPc,      \* index: the call to make next, or "done"
    pEntry,     \* pipeline: "worker", "cli" or "mcp", the entry point run
    pOpts,      \* pipeline: the options of the run
    pRaw,       \* pipeline: raw_text, what the extractor read from the PDF
    pText,      \* pipeline: the local `text` / `processed_text`
    pPositions, \* pipeline: the local document_positions of the MCP tool
    pMeta,      \* pipeline: the DocumentMetadata record, if there is one
    pParsed,    \* pipeline: the record as MetadataParser.parse returned it
    pResult,    \* pipeline: what the run returned or saved
    pStatus,    \* pipeline: the job status the worker task wrote last
    pPc,        \* pipeline: the step to run next, or "done"
    aIds,       \* anchors: the two document ids the caller holds
    aLog,       \* anchors: the calls made so far and what each returned
    jHash,      \* jobs: the Redis hash job:<job_id>
    jResult,    \* jobs: the Redis key result:<job_id>, with its expiry time
    jQueue,     \* jobs: "none" before POST /extract, "queued", then "taken"
    jFile,      \* jobs: the uploaded file is in the upload directory
    jTask,      \* jobs: where extract_pdf_task stands in the worker
    jDel,       \* jobs: where a running DELETE /jobs/{job_id} stands
    jNow,       \* jobs: the clock, in seconds
    jTicks,     \* jobs: how many times the clock has moved
    jStatusResp,    \* jobs: the last response of GET /jobs/{job_id}
    jResultResp,    \* jobs: the last response of GET /jobs/{job_id}/result
    jFirstStarted,  \* jobs: the time the task first reported status started
    rLimits,    \* rate limit: the limits of the API key
    rMinute,    \* rate limit: the Redis counter of the minute
    rHour,      \* rate limit: the Redis counter of the hour
    rReqs,      \* rate limit: where each request stands in dispatch
    rPassed,    \* rate limit: how many requests were handed to call_next
    kKeys,      \* API keys: the ids of the rows of the table
    kAdmins,    \* API keys: the ids whose row has is_admin set
    kReqs,      \* API keys: where each DELETE /api-keys/{key_id} stands
    sFiles,     \* storage: the locations of the file system that hold a file
    sLast,      \* storage: the last call of LocalStorage and what it touched
    sCalls,     \* storage: how many calls were made
    fContent,   \* save_to_file: the argument content
    fOld,       \* save_to_file: the file at output_path before the call
    fOut,       \* save_to_file: the file at output_path
    fTemp,      \* save_to_file: the temporary file of mkstemp
    fPc,        \* save_to_file: the statement to run next, "returned" or "raised"
    secText,    \* format_with_sections: the argument text
    secMetadata,\* format_with_sections: the argument metadata
    secMarkdown,\* format_with_sections: what format_metadata_as_markdown returns
    secOut,     \* format_with_sections: the markdown returned
    secPc       \* format_with_sections: "idle", "called" or "returned"

normVars == <<nIn, nText, nPrev, nPc, nPass, nOut1>>
ragVars == <<ragText, ragSize, ragMeta, ragChunks, ragPc, ragHeap, ragMuts>>
idxVars == <<idxText, idxIds, idxPositions, idxTable, idxType, idxPc>>
pipeVars == <<pEntry, pOpts, pRaw, pText, pPositions, pMeta, pParsed, pResult,
              pStatus, pPc>>
anchorVars == <<aIds, aLog>>
jobVars == <<jHash, jResult, jQueue, jFile, jTask, jDel, jNow, jTicks,
             jStatusResp, jResultResp, jFirstStarted>>
rateVars == <<rLimits, rMinute, rHour, rReqs, rPassed>>
keyVars == <<kKeys, kAdmins, kReqs>>
storageVars == <<sFiles, sLast, sCalls>>
saveVars == <<fContent, fOld, fOut, fTemp, fPc>>
secVars == <<secText, secMetadata, secMarkdown, secOut, secPc>>
lateVars == <<anchorVars, jobVars, rateVars, keyVars, storageVars, saveVars, secVars>>
secRest == <<anchorVars, jobVars, rateVars, keyVars, storageVars, saveVars>>
saveRest == <<anchorVars, jobVars, rateVars, keyVars, storageVars, secVars>>
anchorRest == <<jobVars, rateVars, keyVars, storageVars, saveVars, secVars>>
jobsRest == <<anchorVars, rateVars, keyVars, storageVars, saveVars, secVars>>
rateRest == <<anchorVars, jobVars, keyVars, storageVars, saveVars, secVars>>
keysRest == <<anchorVars, jobVars, rateVars, storageVars, saveVars, secVars>>
storageRest == <<anchorVars, jobVars, rateVars, keyVars, saveVars, secVars>>
earlyVars == <<normVars, ragVars, idxVars, pipeVars>>
vars == <<nIn, nText, nPrev, nPc, nPass, nOut1,
          ragText, ragSize, ragMeta, ragChunks, ragPc, ragHeap, ragMuts,
          idxText, idxIds, idxPositions, idxTable, idxType, idxPc,
          pEntry, pOpts, pRaw, pText, pPositions, pMeta, pParsed, pResult,
          pStatus, pPc, lateVars>>

(***************************************************************************)
(* Bounds of the model.                                                    *)
(***************************************************************************)
\* the texts given to normalize are built of at most this many fragments
MaxFrags == 4
\* ... or of at most this many noise fragments
MaxNoiseFrags == 2
\* the texts given to format_for_rag have at most this many characters
MaxRagLen == 5
\* chunk_size ranges over -1 .. MaxChunkSize
MaxChunkSize == 4
\* the caller of format_for_rag writes to a snapshot at most this many times
MaxMutations == 1
\* the texts with document ids are built of at most this many fragments
MaxIndexFrags == 3
\* the contexts of detect_type are built of at most this many fragments
MaxTypeFrags == 2
\* the texts read from a PDF are built of at most this many fragments
MaxPipeFrags == 3
\* the chunk_size of a job is 0, this, or the default
MaxPipeChunkSize == 3
\* the longest document id a caller of the anchor functions holds
MaxIdLen == 2
\* how many calls of the anchor functions a run makes
MaxAnchorCalls == 3
\* how many times the clock of the jobs moves
MaxTicks == 2
\* how many requests of one API key are in flight within the window
MaxRequests == 3
\* the largest rate limit of a key
MaxRateLimit == 2
\* the rows of the table of API keys
MaxKeys == 3
\* the server processes that share the table
MaxKeyServers == 2
\* the DELETE /api-keys/{key_id} requests made
MaxKeyRequests == 2
\* the longest path string given to the storage
MaxPathLen == 4
\* the calls of the storage made in a run
MaxStorageCalls == 2
\* the longest content given to save_to_file
MaxContentLen == 2
\* the most lines of a text given to format_with_sections
MaxSectionLines == 2
\* the most titles in metadata.sections
MaxSections == 2

(***************************************************************************)
(* Characters.                                                             *)
(***************************************************************************)
Whitespace == {" ", "\n", "\t", "\r"}
Digits == {"0", "1", "2", "3", "4", "5", "6", "7", "8", "9"}
UpperLetters ==
    <<"A", "B", "C", "D", "E", "F", "G", "H", "I", "J", "K", "L", "M", "N",
      "O", "P", "Q", "R", "S", "T", "U", "V", "W", "X", "Y", "Z", "Á", "Ã",
      "Ç", "Í">>
LowerLetters ==
    <<"a", "b", "c", "d", "e", "f", "g", "h", "i", "j", "k", "l", "m", "n",
      "o", "p", "q", "r", "s", "t", "u", "v", "w", "x", "y", "z", "á", "ã",
      "ç", "í">>
UpperSet == {UpperLetters[i] : i \in 1..Len(UpperLetters)}
LowerSet == {LowerLetters[i] : i \in 1..Len(LowerLetters)}
\* [a-z] of a regular expression: the ASCII lower-case letters only
AsciiLowerSet == LowerSet \ {"á", "ã", "ç", "í"}
LowerOf ==
    [c \in UpperSet |->
        LowerLetters[CHOOSE i \in 1..Len(UpperLetters) : UpperLetters[i] = c]]
UpperOf ==
    [c \in LowerSet |->
        UpperLetters[CHOOSE i \in 1..Len(LowerLetters) : LowerLetters[i] = c]]
IsLetter(c) == c \in UpperSet \cup LowerSet
\* \w of a regular expression
IsWordChar(c) == IsLetter(c) \/ c \in Digits \/ c = "_"
LowerChar(c) == IF c \in UpperSet THEN LowerOf[c] ELSE c
UpperChar(c) == IF c \in LowerSet THEN UpperOf[c] ELSE c

\* Python's None: a value that is no text (its only element is no character)
None == <<"None">>
\* Python's None where a DocumentMetadata is expected: a record without the
\* fields of one
NoMetadata == [none |-> TRUE]

(***************************************************************************)
(* str methods.                                                            *)
(***************************************************************************)
\* str.lower
lower(s) == [i \in 1..Len(s) |-> LowerChar(s[i])]

\* the index of the first / last character that is not whitespace (0: none)
FirstNonSpace(s) ==
    LET I == {i \in 1..Len(s) : s[i] \notin Whitespace}
    IN IF I = {} THEN 0 ELSE CHOOSE i \in I : \A j \in I : i <= j
LastNonSpace(s) ==
    LET I == {i \in 1..Len(s) : s[i] \notin Whitespace}
    IN IF I = {} THEN 0 ELSE CHOOSE i \in I : \A j \in I : j <= i

\* str.rstrip()
rstrip(s) == SubSeq(s, 1, LastNonSpace(s))

\* str.strip() mistaken for str.rstrip(): leading whitespace is kept
strip_trailing_only(s) == rstrip(s)

\* str.strip()
strip(s) ==
    IF FirstNonSpace(s) = 0 THEN <<>>
    ELSE SubSeq(s, FirstNonSpace(s), LastNonSpace(s))

RECURSIVE SplitAt(_, _, _, _)
SplitAt(s, i, cur, acc) ==
    IF i > Len(s) THEN Append(acc, cur)
    ELSE IF s[i] = "\n" THEN SplitAt(s, i + 1, <<>>, Append(acc, cur))
    ELSE SplitAt(s, i + 1, Append(cur, s[i]), acc)

\* text.split('\n')
split_lines(s) == SplitAt(s, 1, <<>>, <<>>)

RECURSIVE JoinFrom(_, _, _, _)
JoinFrom(sep, parts, i, acc) ==
    IF i > Len(parts) THEN acc
    ELSE JoinFrom(sep, parts, i + 1,
                  IF i = 1 THEN parts[1] ELSE acc \o sep \o parts[i])

\* sep.join(parts)
join(sep, parts) == JoinFrom(sep, parts, 1, <<>>)

RECURSIVE SplitWordsAt(_, _, _, _)
SplitWordsAt(s, i, cur, acc) ==
    IF i > Len(s) THEN IF cur = <<>> THEN acc ELSE Append(acc, cur)
    ELSE IF s[i] \in Whitespace
         THEN SplitWordsAt(s, i + 1, <<>>,
                           IF cur = <<>> THEN acc ELSE Append(acc, cur))
         ELSE SplitWordsAt(s, i + 1, Append(cur, s[i]), acc)

\* str.split(): the whitespace-delimited words
split_words(s) == SplitWordsAt(s, 1, <<>>, <<>>)

\* whether `lit` stands in s at position i
MatchAt(s, i, lit) ==
    /\ i >= 1
    /\ i + Len(lit) - 1 <= Len(s)
    /\ \A k \in 1..Len(lit) : s[i + k - 1] = lit[k]

\* the same under re.IGNORECASE; lit is given in lower case
MatchAtI(s, i, lit) ==
    /\ i >= 1
    /\ i + Len(lit) - 1 <= Len(s)
    /\ \A k \in 1..Len(lit) : LowerChar(s[i + k - 1]) = lit[k]

\* the first index >= i whose character is not in class (Len(s) + 1: none):
\* where a greedy class* that starts at i ends
RECURSIVE SkipIn(_, _, _)
SkipIn(s, i, class) ==
    IF i <= Len(s) /\ s[i] \in class THEN SkipIn(s, i + 1, class) ELSE i

\* re.sub(pattern, repl, s) for a pattern without empty matches: ml[i] is the
\* length of the match that starts at i (0: none) and rp[i] its replacement;
\* the matches are taken leftmost first and do not overlap
RECURSIVE SubScan(_, _, _, _, _)
SubScan(s, ml, rp, i, acc) ==
    IF i > Len(s) THEN acc
    ELSE IF ml[i] > 0 THEN SubScan(s, ml, rp, i + ml[i], acc \o rp[i])
    ELSE SubScan(s, ml, rp, i + 1, Append(acc, s[i]))

re_sub(s, ml, rp) == SubScan(s, ml, rp, 1, <<>>)

\* str.replace(old, new)
replace(s, old, new) ==
    re_sub(s,
           [i \in 1..Len(s) |-> IF MatchAt(s, i, old) THEN Len(old) ELSE 0],
           [i \in 1..Len(s) |-> new])

(***************************************************************************)
(* RegexPatterns (src/utils/patterns.py): the pattern library the          *)
(* normalizer calls.                                                       *)
(***************************************************************************)
\* the acronym whitelist
LEGAL_ACRONYMS ==
    << <<"O", "A", "B">>, <<"S", "T", "F">>, <<"S", "T", "J">>,
       <<"C", "P", "C">> >>

\* the whitelisted acronym that stands at position i of s as a whole word
\* (<<>>: none)
AcronymAt(s, i) ==
    LET hits == {k \in 1..Len(LEGAL_ACRONYMS) :
                    /\ MatchAt(s, i, LEGAL_ACRONYMS[k])
                    /\ (i = 1 \/ ~IsWordChar(s[i - 1]))
                    /\ LET e == i + Len(LEGAL_ACRONYMS[k])
                       IN e > Len(s) \/ ~IsWordChar(s[e])}
    IN IF hits = {} THEN <<>>
       ELSE LEGAL_ACRONYMS[CHOOSE k \in hits : \A j \in hits : k <= j]

\* RegexPatterns.is_all_caps: ignoring digits, punctuation and whitespace, the
\* line holds upper-case letters only
is_all_caps(line) ==
    \A i \in 1..Len(line) : IsLetter(line[i]) => line[i] \in UpperSet

\* Num\.\s*\d+\s*-\s*Pág\.\s*\d+ under re.IGNORECASE: the length of the match
\* that starts at i (0: none)
PageFooterLen(s, i) ==
    IF ~MatchAtI(s, i, <<"n", "u", "m", ".">>) THEN 0
    ELSE LET a == SkipIn(s, i + 4, Whitespace)
             b == SkipIn(s, a, Digits)
             c == SkipIn(s, b, Whitespace)
             d == SkipIn(s, c + 1, Whitespace)
             e == SkipIn(s, d + 4, Whitespace)
             f == SkipIn(s, e, Digits)
         IN IF /\ b > a
               /\ MatchAt(s, c, <<"-">>)
               /\ MatchAtI(s, d, <<"p", "á", "g", ".">>)
               /\ f > e
            THEN f - i ELSE 0

\* https?://\S+: the length of the match that starts at i (0: none)
UrlLen(s, i) ==
    LET p == IF MatchAt(s, i, <<"h", "t", "t", "p", "s">>) THEN i + 5
             ELSE IF MatchAt(s, i, <<"h", "t", "t", "p">>) THEN i + 4
             ELSE 0
    IN IF p > 0 /\ MatchAt(s, p, <<":", "/", "/">>)
          /\ p + 3 <= Len(s) /\ s[p + 3] \notin Whitespace
       THEN LET RECURSIVE End(_)
                End(j) == IF j <= Len(s) /\ s[j] \notin Whitespace
                          THEN End(j + 1) ELSE j
            IN End(p + 3) - i
       ELSE 0

\* Página\s+\d+\s+de\s+\d+, a bare page marker such as "Página 1 de 10": the
\* length of the match that starts at i (0: none)
BarePageMarkerLen(s, i) ==
    IF ~MatchAtI(s, i, <<"p", "á", "g", "i", "n", "a">>) THEN 0
    ELSE LET a == SkipIn(s, i + 6, Whitespace)
             b == SkipIn(s, a, Digits)
             c == SkipIn(s, b, Whitespace)
             d == SkipIn(s, c + 2, Whitespace)
             e == SkipIn(s, d, Digits)
         IN IF /\ a > i + 6
               /\ b > a
               /\ c > b
               /\ MatchAtI(s, c, <<"d", "e">>)
               /\ d > c + 2
               /\ e > d
            THEN e - i ELSE 0

\* the replacement '' of every match
Nothing(s) == [i \in 1..Len(s) |-> <<>>]

\* RegexPatterns.clean_noise: strips the page footers "Num. X - Pág. Y", the
\* bare page markers and the verification URLs
RegexPatterns_clean_noise(text) ==
    LET t1 == re_sub(text, [i \in 1..Len(text) |-> PageFooterLen(text, i)],
                     Nothing(text))
        t2 == re_sub(t1, [i \in 1..Len(t1) |-> BarePageMarkerLen(t1, i)],
                     Nothing(t1))
    IN re_sub(t2, [i \in 1..Len(t2) |-> UrlLen(t2, i)], Nothing(t2))

(***************************************************************************)
(* TextNormalizer (src/processors/text_normalizer.py).                    *)
(***************************************************************************)
\* ---\s*página\s*\{\}\s*--- under re.IGNORECASE: the length of the match that
\* starts at i (0: none)
PageMarkerLen(s, i) ==
    IF ~MatchAt(s, i, <<"-", "-", "-">>) THEN 0
    ELSE LET a == SkipIn(s, i + 3, Whitespace)
             b == SkipIn(s, a + 6, Whitespace)
             c == SkipIn(s, b + 2, Whitespace)
         IN IF /\ MatchAtI(s, a, <<"p", "á", "g", "i", "n", "a">>)
               /\ MatchAt(s, b, <<"{", "}">>)
               /\ MatchAt(s, c, <<"-", "-", "-">>)
            THEN c + 3 - i ELSE 0

\* TextNormalizer._clean_noise
clean_noise(text) ==
    LET t1 == RegexPatterns_clean_noise(text)
        t2 == re_sub(t1, [i \in 1..Len(t1) |-> PageFooterLen(t1, i)],
                     Nothing(t1))
    IN re_sub(t2, [i \in 1..Len(t2) |-> PageMarkerLen(t2, i)], Nothing(t2))

\* str(n) for the numbers the placeholders carry
DigitChars == <<"0", "1", "2", "3", "4", "5", "6", "7", "8", "9">>
RECURSIVE str(_)
str(n) == IF n < 10 THEN <<DigitChars[n + 1]>>
          ELSE str(n \div 10) \o <<DigitChars[(n % 10) + 1]>>

\* f"__ACRONYM{n}__"
Placeholder(n) ==
    <<"_", "_", "A", "C", "R", "O", "N", "Y", "M">> \o str(n) \o <<"_", "_">>

\* LEGAL_ACRONYMS.sub(replace_acronym, line): each acronym found becomes the
\* placeholder numbered by the size of acronym_map, which records the pair
RECURSIVE SubAcronyms(_, _, _, _)
SubAcronyms(s, i, out, map) ==
    IF i > Len(s) THEN [line |-> out, acronym_map |-> map]
    ELSE LET a == AcronymAt(s, i)
         IN IF a # <<>>
            THEN SubAcronyms(s, i + Len(a), out \o Placeholder(Len(map)),
                             Append(map, <<Placeholder(Len(map)), a>>))
            ELSE SubAcronyms(s, i + 1, Append(out, s[i]), map)

\* ([.!?]\s+)([a-z]): the length of the match that starts at i (0: none)
SentenceStartLen(s, i) ==
    IF s[i] \notin {".", "!", "?"} THEN 0
    ELSE LET a == SkipIn(s, i + 1, Whitespace)
         IN IF a > i + 1 /\ a <= Len(s) /\ s[a] \in AsciiLowerSet
            THEN a + 1 - i ELSE 0

\* re.sub(r'([.!?]\s+)([a-z])', lambda m: m.group(1) + m.group(2).upper(), line)
capitalize_sentences(s) ==
    re_sub(s,
           [i \in 1..Len(s) |-> SentenceStartLen(s, i)],
           [i \in 1..Len(s) |->
               LET n == SentenceStartLen(s, i)
               IN IF n = 0 THEN <<>>
                  ELSE SubSeq(s, i, i + n - 2) \o <<UpperChar(s[i + n - 1])>>])

\* the restoring loop: line = line.replace(placeholder.lower(), acronym) for
\* the pairs of acronym_map in insertion order
RECURSIVE restore_acronyms(_, _, _)
restore_acronyms(line, map, k) ==
    IF k > Len(map) THEN line
    ELSE restore_acronyms(replace(line, lower(map[k][1]), map[k][2]),
                          map, k + 1)

\* TextNormalizer._convert_to_sentence_case (preserve_acronyms is True)
convert_to_sentence_case(line) ==
    LET sub == SubAcronyms(line, 1, <<>>, <<>>)
        low == lower(sub.line)
        cap == IF low # <<>> THEN <<UpperChar(low[1])>> \o Tail(low) ELSE low
    IN restore_acronyms(capitalize_sentences(cap), sub.acronym_map, 1)

\* the loop body without the is_all_caps test: every line that is not blank
\* is converted
normalize_uppercase_line_unchecked(line) ==
    IF strip(line) = <<>> THEN line ELSE convert_to_sentence_case(line)

\* the body of the loop of _normalize_uppercase for one line
normalize_uppercase_line(line) ==
    IF strip(line) = <<>> THEN line
    ELSE IF is_all_caps(strip(line)) THEN convert_to_sentence_case(line)
    ELSE line

\* TextNormalizer._normalize_uppercase
normalize_uppercase(text) ==
    LET lines == split_lines(text)
    IN join(<<"\n">>,
            [i \in 1..Len(lines) |-> normalize_uppercase_line(lines[i])])

\* re.sub(r' +', ' ', line)
collapse_spaces(line) ==
    re_sub(line,
           [i \in 1..Len(line) |->
               IF line[i] = " " THEN SkipIn(line, i, {" "}) - i ELSE 0],
           [i \in 1..Len(line) |-> <<" ">>])

\* re.sub of a run of at least `least` newlines by two newlines
cap_newlines(text, least) ==
    re_sub(text,
           [i \in 1..Len(text) |->
               LET n == SkipIn(text, i, {"\n"}) - i
               IN IF n >= least THEN n ELSE 0],
           [i \in 1..Len(text) |-> <<"\n", "\n">>])

\* the loop of _normalize_whitespace over lines[i..]
RECURSIVE dedupe(_, _, _, _, _)
dedupe(lines, i, prev_line, consecutive_empty, deduped_lines) ==
    IF i > Len(lines) THEN deduped_lines
    ELSE IF strip(lines[i]) = <<>>
         THEN dedupe(lines, i + 1, prev_line, consecutive_empty + 1,
                     IF consecutive_empty + 1 <= 1
                     THEN Append(deduped_lines, lines[i])
                     ELSE deduped_lines)
         ELSE dedupe(lines, i + 1, lines[i], 0,
                     IF lines[i] # prev_line
                     THEN Append(deduped_lines, lines[i])
                     ELSE deduped_lines)

\* the lines of _normalize_whitespace as they enter the loop
whitespace_lines(text) ==
    LET lines == split_lines(text)
    IN [i \in 1..Len(lines) |-> collapse_spaces(rstrip(lines[i]))]

\* TextNormalizer._normalize_whitespace
normalize_whitespace(text) ==
    LET deduped_lines == dedupe(whitespace_lines(text), 1, None, 0, <<>>)
    IN strip(cap_newlines(join(<<"\n">>, deduped_lines), 2))

\* re.sub(r'^\s+$', '', text, flags=re.MULTILINE): the length of the match
\* that starts at i (0: none): the longest run of whitespace from a line start
\* to a line end
BlankRunLen(s, i) ==
    IF ~(i = 1 \/ s[i - 1] = "\n") THEN 0
    ELSE LET stop == SkipIn(s, i, Whitespace)
             ends == {j \in (i + 1)..stop : j > Len(s) \/ s[j] = "\n"}
         IN IF ends = {} THEN 0
            ELSE (CHOOSE j \in ends : \A k \in ends : k <= j) - i

\* the loop of _final_cleanup over lines[i..]
RECURSIVE drop_blank_runs(_, _, _, _)
drop_blank_runs(lines, i, blank_count, cleaned) ==
    IF i > Len(lines) THEN cleaned
    ELSE IF lines[i] = <<>>
         THEN drop_blank_runs(lines, i + 1, blank_count + 1,
                              IF blank_count + 1 <= 1
                              THEN Append(cleaned, lines[i]) ELSE cleaned)
         ELSE drop_blank_runs(lines, i + 1, 0, Append(cleaned, lines[i]))

\* TextNormalizer._final_cleanup
final_cleanup(text) ==
    LET t1 == re_sub(text, [i \in 1..Len(text) |-> BlankRunLen(text, i)],
                     Nothing(text))
        cleaned == drop_blank_runs(split_lines(t1), 1, 0, <<>>)
    IN strip(cap_newlines(join(<<"\n">>, cleaned), 3))

(***************************************************************************)
(* MarkdownFormatter.format_for_rag                                        *)
(* (src/formatters/markdown_formatter.py).                                 *)
(***************************************************************************)
Terminators == {".", "!", "?"}

\* ([^.!?]*[.!?]+): the length of the match that starts at i (0: none)
SentenceLen(s, i) ==
    LET RECURSIVE Body(_)
        Body(j) == IF j <= Len(s) /\ s[j] \notin Terminators
                   THEN Body(j + 1) ELSE j
        a == Body(i)
        b == SkipIn(s, a, Terminators)
    IN IF b > a THEN b - i ELSE 0

\* re.findall(pattern, s): the matches, leftmost first, not overlapping
RECURSIVE FindScan(_, _, _, _)
FindScan(s, ml, i, acc) ==
    IF i > Len(s) THEN acc
    ELSE IF ml[i] > 0
         THEN FindScan(s, ml, i + ml[i], Append(acc, SubSeq(s, i, i + ml[i] - 1)))
    ELSE FindScan(s, ml, i + 1, acc)

re_findall(s, ml) == FindScan(s, ml, 1, <<>>)

\* [x for x in parts if x] for a list of texts
RECURSIVE NonEmpty(_, _, _)
NonEmpty(parts, i, acc) ==
    IF i > Len(parts) THEN acc
    ELSE NonEmpty(parts, i + 1,
                  IF parts[i] # <<>> THEN Append(acc, parts[i]) ELSE acc)

\* the sentences without the text the pattern leaves over: what follows the
\* last terminator is forgotten
split_sentences_no_remaining(text) ==
    LET ml == [i \in 1..Len(text) |-> SentenceLen(text, i)]
        parts == re_findall(text, ml)
    IN NonEmpty([i \in 1..Len(parts) |-> strip(parts[i])], 1, <<>>)

\* the sentences of format_for_rag: the matches of the sentence pattern, the
\* text the pattern leaves over, each stripped, the empty ones dropped
split_sentences(text) ==
    LET ml == [i \in 1..Len(text) |-> SentenceLen(text, i)]
        parts == re_findall(text, ml)
        remaining == strip(re_sub(text, ml, Nothing(text)))
        all == IF remaining # <<>> THEN Append(parts, remaining) ELSE parts
    IN NonEmpty([i \in 1..Len(all) |-> strip(all[i])], 1, <<>>)

\* `value or ''`
or_empty(value) == IF value = None THEN <<>> ELSE value

\* base_metadata of format_for_rag
base_metadata(metadata) ==
    [process_number |-> or_empty(metadata.process_number),
     document_ids |-> join(<<",">>, metadata.document_ids),
     court |-> or_empty(metadata.court),
     author |-> or_empty(metadata.author),
     defendant |-> or_empty(metadata.defendant)]

\* a chunk whose text is kept as accumulated, not stripped
Chunk_unstripped(text, base, chunk_index) ==
    [text |-> text,
     metadata |-> [chunk_index |-> chunk_index] @@ base,
     chunk_index |-> chunk_index]

\* a chunk whose snapshot keeps the index of the first chunk
Chunk_stale_index(text, base, chunk_index) ==
    [text |-> strip(text),
     metadata |-> [chunk_index |-> 0] @@ base,
     chunk_index |-> chunk_index]

\* the dict appended for a chunk
Chunk(text, base, chunk_index) ==
    [text |-> strip(text),
     metadata |-> [chunk_index |-> chunk_index] @@ base,
     chunk_index |-> chunk_index]

\* the loop over the words of a sentence longer than chunk_size
RECURSIVE word_loop(_, _, _, _, _, _, _)
word_loop(words, j, chunk_size, base, chunks, word_chunk, chunk_index) ==
    IF j > Len(words)
    THEN [chunks |-> chunks, word_chunk |-> word_chunk,
          chunk_index |-> chunk_index]
    ELSE IF Len(word_chunk) + Len(words[j]) + 1 <= chunk_size
         THEN word_loop(words, j + 1, chunk_size, base, chunks,
                        IF word_chunk # <<>>
                        THEN word_chunk \o <<" ">> \o words[j]
                        ELSE words[j],
                        chunk_index)
         ELSE IF word_chunk # <<>>
              THEN word_loop(words, j + 1, chunk_size, base,
                             Append(chunks, Chunk(word_chunk, base, chunk_index)),
                             words[j], chunk_index + 1)
              ELSE word_loop(words, j + 1, chunk_size, base, chunks,
                             words[j], chunk_index)

\* the loop over the sentences, and the final chunk
RECURSIVE sentence_loop(_, _, _, _, _, _, _)
sentence_loop(sentences, i, chunk_size, base, chunks, current_chunk, chunk_index) ==
    IF i > Len(sentences)
    THEN IF current_chunk # <<>>
         THEN Append(chunks, Chunk(current_chunk, base, chunk_index))
         ELSE chunks
    ELSE IF Len(current_chunk) + Len(sentences[i]) + 1 <= chunk_size
         THEN sentence_loop(sentences, i + 1, chunk_size, base, chunks,
                            IF current_chunk # <<>>
                            THEN current_chunk \o <<" ">> \o sentences[i]
                            ELSE sentences[i],
                            chunk_index)
         ELSE LET flushed == IF current_chunk # <<>>
                             THEN Append(chunks,
                                         Chunk(current_chunk, base, chunk_index))
                             ELSE chunks
                  next_index == IF current_chunk # <<>>
                                THEN chunk_index + 1 ELSE chunk_index
              IN IF Len(sentences[i]) > chunk_size
                 THEN LET w == word_loop(split_words(sentences[i]), 1,
                                         chunk_size, base, flushed, <<>>,
                                         next_index)
                      IN sentence_loop(sentences, i + 1, chunk_size, base,
                                       w.chunks, w.word_chunk, w.chunk_index)
                 ELSE sentence_loop(sentences, i + 1, chunk_size, base,
                                    flushed, sentences[i], next_index)

\* every chunk is given the dict base_metadata itself, which lives at
\* address 0
snapshot_address_shared(chunk_index) == 0

\* the address of the dict {**base_metadata, 'chunk_index': chunk_index}: a
\* dict display makes a new dict, so each chunk has an address of its own
\* (base_metadata lives at address 0)
snapshot_address(chunk_index) == chunk_index + 1

\* the dicts alive when format_for_rag returns chunks: base_metadata and
\* the snapshots, each holding what was last written at its address
heap_after(chunks, base) ==
    LET RECURSIVE Write(_, _)
        Write(heap, i) ==
            IF i > Len(chunks) THEN heap
            ELSE LET a == snapshot_address(chunks[i].chunk_index)
                 IN Write((a :> chunks[i].metadata) @@ heap, i + 1)
    IN Write(0 :> base, 1)

\* the chunks as a caller sees them: 'metadata' read at its address
through_heap(chunks, heap) ==
    [i \in 1..Len(chunks) |->
        [chunks[i] EXCEPT
            !.metadata = heap[snapshot_address(chunks[i].chunk_index)]]]

\* MarkdownFormatter.format_for_rag, for a metadata that is given
format_for_rag(text, metadata, chunk_size) ==
    IF text = <<>> \/ strip(text) = <<>> THEN <<>>
    ELSE IF Len(strip(text)) <= chunk_size
         THEN <<Chunk(text, base_metadata(metadata), 0)>>
         ELSE sentence_loop(split_sentences(text), 1, chunk_size,
                            base_metadata(metadata), <<>>, <<>>, 0)

(***************************************************************************)
(* RegexPatterns: the document ids (src/utils/patterns.py is not among the *)
(* files of the repository; written from its description and its tests,    *)
(* tests/test_patterns_position.py).                                       *)
(***************************************************************************)
\* Num\.\s*(\d+): the length of the match that starts at i (0: none)
DocumentIdLen(s, i) ==
    IF ~MatchAt(s, i, <<"N", "u", "m", ".">>) THEN 0
    ELSE LET a == SkipIn(s, i + 4, Whitespace)
             b == SkipIn(s, a, Digits)
         IN IF b > a THEN b - i ELSE 0

\* where the digits of the match that starts at i start
DocumentIdStart(s, i) == SkipIn(s, i + 4, Whitespace)

\* the width of the context kept on each side of a match
CONTEXT_CHARS == 30

\* str.count of a character within the first n characters of s
count_char(s, n, c) == Cardinality({k \in 1..n : s[k] = c})

\* the record of the match that starts at i: the id, the 1-based line and the
\* 0-based offset of the digits, and the text around the match
position_record(text, i) ==
    LET stop == i + DocumentIdLen(text, i)
        digits == DocumentIdStart(text, i)
        from == IF i - CONTEXT_CHARS < 1 THEN 1 ELSE i - CONTEXT_CHARS
        to == IF stop + CONTEXT_CHARS - 1 > Len(text)
              THEN Len(text) ELSE stop + CONTEXT_CHARS - 1
    IN [id |-> SubSeq(text, digits, stop - 1),
        line |-> count_char(text, i - 1, "\n") + 1,
        position |-> digits - 1,
        context_before |-> SubSeq(text, from, i - 1),
        context_after |-> SubSeq(text, stop, to)]

\* the matches of the id pattern from i on, leftmost first, not overlapping
RECURSIVE PositionScan(_, _, _)
PositionScan(text, i, acc) ==
    IF i > Len(text) THEN acc
    ELSE IF DocumentIdLen(text, i) > 0
         THEN PositionScan(text, i + DocumentIdLen(text, i),
                           Append(acc, position_record(text, i)))
    ELSE PositionScan(text, i + 1, acc)

\* RegexPatterns.extract_document_ids_with_positions
extract_document_ids_with_positions(text) == PositionScan(text, 1, <<>>)

\* the elements of a list, each kept where it stands last
unique_keep_last(items) ==
    LET keep == {k \in 1..Len(items) :
                    \A j \in (k + 1)..Len(items) : items[j] # items[k]}
        RECURSIVE Pick(_, _)
        Pick(k, acc) == IF k > Len(items) THEN acc
                        ELSE Pick(k + 1, IF k \in keep
                                         THEN Append(acc, items[k]) ELSE acc)
    IN Pick(1, <<>>)

\* the elements of a list, each kept where it stands first
unique(items) ==
    LET keep == {k \in 1..Len(items) :
                    \A j \in 1..(k - 1) : items[j] # items[k]}
        RECURSIVE Pick(_, _)
        Pick(k, acc) == IF k > Len(items) THEN acc
                        ELSE Pick(k + 1, IF k \in keep
                                         THEN Append(acc, items[k]) ELSE acc)
    IN Pick(1, <<>>)

\* the digits of the matches of the id pattern, in text order
RECURSIVE IdScan(_, _, _)
IdScan(text, i, acc) ==
    IF i > Len(text) THEN acc
    ELSE IF DocumentIdLen(text, i) > 0
         THEN IdScan(text, i + DocumentIdLen(text, i),
                     Append(acc, SubSeq(text, DocumentIdStart(text, i),
                                        i + DocumentIdLen(text, i) - 1)))
    ELSE IdScan(text, i + 1, acc)

\* RegexPatterns.extract_document_ids
extract_document_ids(text) == unique(IdScan(text, 1, <<>>))

(***************************************************************************)
(* IndexGenerator (src/lex_pdftotext/formatters/index_generator.py).       *)
(* A character outside the Basic Multilingual Plane, and the scales sign   *)
(* with its variation selector, is written by its code point: "U+1F4C4".   *)
(***************************************************************************)
\* ICONS, in the order of the dict
ICONS ==
    << [key |-> <<"P", "e", "t", "i", "ç", "ã", "o", " ", "I", "n", "i", "c", "i", "a", "l">>,
        icon |-> <<"U+1F4C4">>],
       [key |-> <<"P", "e", "t", "i", "ç", "ã", "o">>,
        icon |-> <<"U+1F4C4">>],
       [key |-> <<"P", "e", "t", "i", "ç", "ã", "o", " ", "I", "n", "t", "e", "r", "m", "e",
                    "d", "i", "á", "r", "i", "a">>,
        icon |-> <<"U+1F4C4">>],
       [key |-> <<"D", "e", "c", "i", "s", "ã", "o">>,
        icon |-> <<"U+2696", "U+FE0F">>],
       [key |-> <<"S", "e", "n", "t", "e", "n", "ç", "a">>,
        icon |-> <<"U+2696", "U+FE0F">>],
       [key |-> <<"D", "e", "s", "p", "a", "c", "h", "o">>,
        icon |-> <<"U+2696", "U+FE0F">>],
       [key |-> <<"C", "e", "r", "t", "i", "d", "ã", "o">>,
        icon |-> <<"U+1F4CB">>],
       [key |-> <<"T", "e", "r", "m", "o">>,
        icon |-> <<"U+1F4CB">>],
       [key |-> <<"A", "n", "e", "x", "o">>,
        icon |-> <<"U+1F4CE">>],
       [key |-> <<"D", "o", "c", "u", "m", "e", "n", "t", "o">>,
        icon |-> <<"U+1F4CE">>],
       [key |-> <<"I", "n", "t", "i", "m", "a", "ç", "ã", "o">>,
        icon |-> <<"U+1F514">>],
       [key |-> <<"C", "i", "t", "a", "ç", "ã", "o">>,
        icon |-> <<"U+1F514">>],
       [key |-> <<"G", "u", "i", "a">>,
        icon |-> <<"U+1F4B0">>],
       [key |-> <<"C", "u", "s", "t", "a", "s">>,
        icon |-> <<"U+1F4B0">>] >>

\* TYPE_PATTERNS, in the declared order.  A pattern is `head`, a sequence of
\* character classes, followed, when `tail` is not empty, by \s+ and `tail`
TYPE_PATTERNS ==
    << [head |-> <<{"p"}, {"e"}, {"t"}, {"i"}, {"ç", "c"}, {"ã", "a"}, {"o"}>>,
        tail |-> <<{"i"}, {"n"}, {"i"}, {"c"}, {"i"}, {"a"}, {"l"}>>,
        doc_type |-> <<"P", "e", "t", "i", "ç", "ã", "o", " ", "I", "n", "i", "c", "i", "a", "l">>],
       [head |-> <<{"p"}, {"e"}, {"t"}, {"i"}, {"ç", "c"}, {"ã", "a"}, {"o"}>>,
        tail |-> <<>>,
        doc_type |-> <<"P", "e", "t", "i", "ç", "ã", "o">>],
       [head |-> <<{"s"}, {"e"}, {"n"}, {"t"}, {"e"}, {"n"}, {"ç", "c"}, {"a"}>>,
        tail |-> <<>>,
        doc_type |-> <<"S", "e", "n", "t", "e", "n", "ç", "a">>],
       [head |-> <<{"d"}, {"e"}, {"c"}, {"i"}, {"s"}, {"ã", "a"}, {"o"}>>,
        tail |-> <<>>,
        doc_type |-> <<"D", "e", "c", "i", "s", "ã", "o">>],
       [head |-> <<{"d"}, {"e"}, {"s"}, {"p"}, {"a"}, {"c"}, {"h"}, {"o"}>>,
        tail |-> <<>>,
        doc_type |-> <<"D", "e", "s", "p", "a", "c", "h", "o">>],
       [head |-> <<{"c"}, {"e"}, {"r"}, {"t"}, {"i"}, {"d"}, {"ã", "a"}, {"o"}>>,
        tail |-> <<>>,
        doc_type |-> <<"C", "e", "r", "t", "i", "d", "ã", "o">>],
       [head |-> <<{"t"}, {"e"}, {"r"}, {"m"}, {"o"}>>,
        tail |-> <<>>,
        doc_type |-> <<"T", "e", "r", "m", "o">>],
       [head |-> <<{"i"}, {"n"}, {"t"}, {"i"}, {"m"}, {"a"}, {"ç", "c"}, {"ã", "a"}, {"o"}>>,
        tail |-> <<>>,
        doc_type |-> <<"I", "n", "t", "i", "m", "a", "ç", "ã", "o">>],
       [head |-> <<{"c"}, {"i"}, {"t"}, {"a"}, {"ç", "c"}, {"ã", "a"}, {"o"}>>,
        tail |-> <<>>,
        doc_type |-> <<"C", "i", "t", "a", "ç", "ã", "o">>],
       [head |-> <<{"g"}, {"u"}, {"i"}, {"a"}>>,
        tail |-> <<>>,
        doc_type |-> <<"G", "u", "i", "a">>] >>

\* an anchor that does not depend on the id
generate_anchor_constant(doc_id) == <<"d", "o", "c", "-">>

\* IndexGenerator.generate_anchor
generate_anchor(doc_id) == <<"d", "o", "c", "-">> \o doc_id

\* `needle in haystack` for two str
is_in(needle, haystack) ==
    \E i \in 1..(Len(haystack) + 1) : MatchAt(haystack, i, needle)

\* the indexes of ICONS whose lower-cased key is in doc_type_lower
partial_icons(doc_type_lower) ==
    {k \in 1..Len(ICONS) : is_in(lower(ICONS[k].key), doc_type_lower)}

\* IndexGenerator.get_icon: the exact key, else the first key in dict order
\* that is part of the lower-cased type, else the paperclip
get_icon(doc_type) ==
    LET exact == {k \in 1..Len(ICONS) : ICONS[k].key = doc_type}
        partial == partial_icons(lower(doc_type))
    IN IF exact # {} THEN ICONS[CHOOSE k \in exact : TRUE].icon
       ELSE IF partial # {}
            THEN ICONS[CHOOSE k \in partial : \A j \in partial : k <= j].icon
       ELSE <<"U+1F4CE">>

\* whether the characters of s from i on are in the classes given, one each
ClassesAt(s, i, classes) ==
    /\ i >= 1
    /\ i + Len(classes) - 1 <= Len(s)
    /\ \A k \in 1..Len(classes) : s[i + k - 1] \in classes[k]

\* re.search(pattern, s) finds a match
re_search(pattern, s) ==
    \E i \in 1..Len(s) :
        /\ ClassesAt(s, i, pattern.head)
        /\ \/ pattern.tail = <<>>
           \/ LET a == i + Len(pattern.head)
                  b == SkipIn(s, a, Whitespace)
              IN b > a /\ ClassesAt(s, b, pattern.tail)

\* the rules in an order that tries 'Petição' before 'Petição Inicial'
type_rule_order_swapped == <<2, 1, 3, 4, 5, 6, 7, 8, 9, 10>>

\* the order in which detect_type tries the rules: the declared one
type_rule_order == [k \in 1..Len(TYPE_PATTERNS) |-> k]

\* the loop of detect_type from the k-th rule tried on
RECURSIVE first_type(_, _)
first_type(context_lower, k) ==
    IF k > Len(type_rule_order) THEN <<"D", "o", "c", "u", "m", "e", "n", "t", "o">>
    ELSE IF re_search(TYPE_PATTERNS[type_rule_order[k]], context_lower)
         THEN TYPE_PATTERNS[type_rule_order[k]].doc_type
    ELSE first_type(context_lower, k + 1)

\* IndexGenerator.detect_type
detect_type(context) == first_type(lower(context), 1)

\* the positions generate_index_table would read if it took one per id
positions_once_per_id(metadata) ==
    SelectSeq(metadata.document_positions,
              LAMBDA pos : \E k \in 1..Len(metadata.document_positions) :
                  /\ metadata.document_positions[k] = pos
                  /\ \A j \in 1..(k - 1) :
                        metadata.document_positions[j].id # pos.id)

\* the positions generate_index_table goes through
index_positions(metadata) == metadata.document_positions

\* the row of generate_index_table for a position record
index_row(pos) ==
    LET doc_id == pos.id
        context == pos.context_before \o <<" ">> \o pos.context_after
        doc_type == detect_type(context)
        line_num == pos.line
        anchor == generate_anchor(doc_id)
        icon == get_icon(doc_type)
    IN <<"|", " ">> \o icon \o <<" ">> \o doc_id \o <<" ", "|", " ">>
       \o doc_type \o <<" ", "|", " ">> \o str(line_num) \o <<" ", "|", " ">>
       \o <<"[", "V", "e", "r", "]", "(", "#">> \o anchor \o <<")", " ", "|">>

\* the four lines generate_index_table starts with
index_header ==
    << <<"#", "#", " ", "Í", "n", "d", "i", "c", "e", " ", "d", "e", " ", "P", "e", "ç", "a", "s", " ", "P", "r", "o", "c", "e", "s", "s", "u", "a", "i", "s">>,
       <<>>,
       <<"|", " ", "I", "D", " ", "|", " ", "T", "i", "p", "o", " ", "|", " ", "L", "i", "n", "h", "a", " ", "|", " ", "L", "i", "n", "k", " ", "|">>,
       <<"|", "-", "-", "-", "-", "|", "-", "-", "-", "-", "-", "-", "|", "-", "-", "-", "-", "-", "-", "-", "|", "-", "-", "-", "-", "-", "-", "|">> >>

\* IndexGenerator.generate_index_table
generate_index_table(metadata) ==
    LET positions == index_positions(metadata)
    IN join(<<"\n">>,
            index_header \o [k \in 1..Len(positions) |-> index_row(positions[k])])

(***************************************************************************)
(* The inputs of the model.                                                *)
(***************************************************************************)
\* the concatenations of at most n elements of F
RECURSIVE Concats(_, _)
Concats(F, n) ==
    IF n = 0 THEN {<<>>}
    ELSE LET S == Concats(F, n - 1) IN S \cup {s \o f : s \in S, f \in F}

\* what the texts given to normalize are built of: a space, a line break, a
\* paragraph break, a lower-case and an upper-case word, a sentence end, an
\* acronym of the whitelist, and a word spelt like the first placeholder
TextFragments ==
    {<<" ">>, <<"\n">>, <<"\n", "\n">>, <<"a">>, <<"A">>, <<".">>,
     <<"S", "T", "F">>, Placeholder(0)}

\* ... and the noise that _clean_noise is there to remove
NoiseFragments ==
    {<<"N", "u", "m", ".", " ", "1", " ", "-", " ", "P", "á", "g", ".", " ", "2">>,
     <<"-", "-", "-", " ", "p", "á", "g", "i", "n", "a", " ", "{", "}", " ",
       "-", "-", "-">>,
     <<"P", "á", "g", "i", "n", "a", " ", "1", " ", "d", "e", " ", "2">>,
     <<"h", "t", "t", "p", "s", ":", "/", "/", "x">>,
     <<"A">>, <<" ">>, <<"\n">>}

NormInputs ==
    Concats(TextFragments, MaxFrags) \cup Concats(NoiseFragments, MaxNoiseFrags)

RagAlphabet == {<<"a">>, <<"b">>, <<" ">>, <<".">>}
RagTexts == Concats(RagAlphabet, MaxRagLen)
RagSizes == (-1)..MaxChunkSize

\* a record with every field set and one with the optional ones absent
RagMetas ==
    {[process_number |-> <<"1", "-", "2">>,
      document_ids |-> << <<"1", "1">>, <<"2", "2">> >>,
      court |-> <<"T", "J">>, author |-> <<"a">>, defendant |-> <<"b">>],
     [process_number |-> None, document_ids |-> <<>>,
      court |-> None, author |-> None, defendant |-> None]}

(***************************************************************************)
(* The parts of the program a specification leaves alone.                  *)
(***************************************************************************)
\* the hash job:<job_id> or the key result:<job_id> when Redis holds none
NoJob == [none |-> TRUE]
NoResult == [none |-> TRUE, result |-> TRUE]

\* no request of the kind has been answered yet
NoResponse == [none |-> TRUE, response |-> TRUE]

\* a field of the hash that no hset has written
NoTime == -1

JobIdle ==
    /\ jHash = NoJob
    /\ jResult = NoResult
    /\ jQueue = "idle"
    /\ jFile = FALSE
    /\ jTask = "idle"
    /\ jDel = "idle"
    /\ jNow = 0
    /\ jTicks = 0
    /\ jStatusResp = NoResponse
    /\ jResultResp = NoResponse
    /\ jFirstStarted = NoTime

\* _get_limits returns None: the key has no limits
NoLimits == [none |-> TRUE, limits |-> TRUE]

RateIdle ==
    /\ rLimits = NoLimits
    /\ rMinute = 0
    /\ rHour = 0
    /\ rReqs = <<>>
    /\ rPassed = 0

KeysIdle ==
    /\ kKeys = {}
    /\ kAdmins = {}
    /\ kReqs = <<>>

\* no call made yet
NoAccess == [none |-> TRUE, access |-> TRUE]

StorageIdle ==
    /\ sFiles = {}
    /\ sLast = NoAccess
    /\ sCalls = 0

\* no file at a path
NoFile == [none |-> TRUE, file |-> TRUE]

SaveIdle ==
    /\ fContent = <<>>
    /\ fOld = NoFile
    /\ fOut = NoFile
    /\ fTemp = NoFile
    /\ fPc = "idle"

SectionsIdle ==
    /\ secText = <<>>
    /\ secMetadata = NoMetadata
    /\ secMarkdown = <<>>
    /\ secOut = <<>>
    /\ secPc = "idle"

AnchorIdle ==
    /\ aIds = <<>>
    /\ aLog = <<>>

LateIdle ==
    /\ AnchorIdle
    /\ JobIdle
    /\ RateIdle
    /\ KeysIdle
    /\ StorageIdle
    /\ SaveIdle
    /\ SectionsIdle

IdxIdle ==
    /\ idxText = <<>>
    /\ idxIds = None
    /\ idxPositions = None
    /\ idxTable = None
    /\ idxType = None
    /\ idxPc = "idle"

PipeIdle ==
    /\ pEntry = "idle"
    /\ pOpts = None
    /\ pRaw = <<>>
    /\ pText = <<>>
    /\ pPositions = <<>>
    /\ pMeta = NoMetadata
    /\ pParsed = NoMetadata
    /\ pResult = None
    /\ pStatus = None
    /\ pPc = "idle"

(***************************************************************************)
(* normalize(x), then normalize of its result, one stage per step.         *)
(***************************************************************************)
RagIdle ==
    /\ ragText = <<>>
    /\ ragSize = 0
    /\ ragMeta = None
    /\ ragChunks = <<>>
    /\ ragPc = "idle"
    /\ ragHeap = <<>>
    /\ ragMuts = 0

InitNorm ==
    /\ nIn \in NormInputs
    /\ nText = nIn
    /\ nPrev = nIn
    /\ nPc = "clean_noise"
    /\ nPass = 1
    /\ nOut1 = None
    /\ RagIdle
    /\ IdxIdle
    /\ PipeIdle
    /\ LateIdle

\* text = self._clean_noise(text)
CleanNoise ==
    /\ nPc = "clean_noise"
    /\ nPrev' = nText
    /\ nText' = clean_noise(nText)
    /\ nPc' = "normalize_uppercase"
    /\ UNCHANGED <<nIn, nPass, nOut1>>
    /\ UNCHANGED <<ragVars, idxVars, pipeVars, lateVars>>

\* text = self._normalize_uppercase(text)
NormalizeUppercase ==
    /\ nPc = "normalize_uppercase"
    /\ nPrev' = nText
    /\ nText' = normalize_uppercase(nText)
    /\ nPc' = "normalize_whitespace"
    /\ UNCHANGED <<nIn, nPass, nOut1>>
    /\ UNCHANGED <<ragVars, idxVars, pipeVars, lateVars>>

\* text = self._normalize_whitespace(text)
NormalizeWhitespace ==
    /\ nPc = "normalize_whitespace"
    /\ nPrev' = nText
    /\ nText' = normalize_whitespace(nText)
    /\ nPc' = "final_cleanup"
    /\ UNCHANGED <<nIn, nPass, nOut1>>
    /\ UNCHANGED <<ragVars, idxVars, pipeVars, lateVars>>

\* text = self._final_cleanup(text); return text
FinalCleanup ==
    /\ nPc = "final_cleanup"
    /\ nPrev' = nText
    /\ nText' = final_cleanup(nText)
    /\ nPc' = "done"
    /\ nOut1' = IF nPass = 1 THEN nText' ELSE nOut1
    /\ UNCHANGED <<nIn, nPass>>
    /\ UNCHANGED <<ragVars, idxVars, pipeVars, lateVars>>

\* the caller passes the result to normalize again
Renormalize ==
    /\ nPc = "done"
    /\ nPass = 1
    /\ nIn' = nText
    /\ nPrev' = nText
    /\ nPass' = 2
    /\ nPc' = "clean_noise"
    /\ UNCHANGED <<nText, nOut1>>
    /\ UNCHANGED <<ragVars, idxVars, pipeVars, lateVars>>

NextNorm ==
    \/ CleanNoise
    \/ NormalizeUppercase
    \/ NormalizeWhitespace
    \/ FinalCleanup
    \/ Renormalize

SpecNorm == InitNorm /\ [][NextNorm]_vars

(***************************************************************************)
(* One call of format_for_rag.                                             *)
(***************************************************************************)
NormIdle ==
    /\ nIn = <<>>
    /\ nText = <<>>
    /\ nPrev = <<>>
    /\ nPc = "idle"
    /\ nPass = 0
    /\ nOut1 = None

InitRag ==
    /\ ragText \in RagTexts
    /\ ragSize \in RagSizes
    /\ ragMeta \in RagMetas
    /\ ragChunks = <<>>
    /\ ragPc = "call"
    /\ ragHeap = <<>>
    /\ ragMuts = 0
    /\ NormIdle
    /\ IdxIdle
    /\ PipeIdle
    /\ LateIdle

FormatForRag ==
    /\ ragPc = "call"
    /\ LET chunks == format_for_rag(ragText, ragMeta, ragSize)
       IN /\ ragHeap' = heap_after(chunks, base_metadata(ragMeta))
          /\ ragChunks' = through_heap(chunks, ragHeap')
    /\ ragPc' = "done"
    /\ UNCHANGED <<ragText, ragSize, ragMeta, ragMuts>>
    /\ UNCHANGED <<normVars, idxVars, pipeVars, lateVars>>

\* the keys and the value a caller writes to a snapshot
SnapshotKeys == {"court", "document_ids"}
SnapshotValues == {<<"x">>}

\* the caller of format_for_rag runs chunks[i]['metadata'][key] = value.  The
\* values of a snapshot are str objects, which cannot be changed in place,
\* so the write touches the one dict at that address and nothing else
MutateSnapshot ==
    /\ ragPc \in {"done", "mutated"}
    /\ ragMuts < MaxMutations
    /\ \E i \in 1..Len(ragChunks), key \in SnapshotKeys, value \in SnapshotValues :
          LET a == snapshot_address(ragChunks[i].chunk_index)
          IN /\ ragHeap' = [ragHeap EXCEPT ![a][key] = value]
             /\ ragChunks' = through_heap(ragChunks, ragHeap')
    /\ ragMuts' = ragMuts + 1
    /\ ragPc' = "mutated"
    /\ UNCHANGED <<ragText, ragSize, ragMeta>>
    /\ UNCHANGED <<normVars, idxVars, pipeVars, lateVars>>

NextRag == FormatForRag \/ MutateSnapshot

SpecRag == InitRag /\ [][NextRag]_vars

(***************************************************************************)
(* The document ids of a text and the index made of them: the two          *)
(* extractions, generate_index_table on their results, and detect_type on  *)
(* the text.                                                               *)
(***************************************************************************)
\* the texts with ids, line ends and the names of a few document types
IdFragments ==
    {<<"N", "u", "m", ".", " ", "1">>, <<"N", "u", "m", ".", "2", "2">>,
     <<"\n">>, <<" ">>, <<"P", "e", "t", "i", "ç", "ã", "o">>,
     <<"i", "n", "i", "c", "i", "a", "l">>,
     <<"D", "E", "C", "I", "S", "Ã", "O">>}

\* the contexts detect_type is asked about
TypeFragments ==
    {<<" ">>, <<"\n">>, <<"x">>, <<"I", "n", "i", "c", "i", "a", "l">>,
     <<"P", "E", "T", "I", "Ç", "Ã", "O">>, <<"p", "e", "t", "i", "c", "a", "o">>,
     <<"s", "e", "n", "t", "e", "n", "ç", "a">>, <<"D", "e", "c", "i", "s", "a", "o">>,
     <<"d", "e", "s", "p", "a", "c", "h", "o">>,
     <<"C", "e", "r", "t", "i", "d", "ã", "o">>, <<"t", "e", "r", "m", "o">>,
     <<"i", "n", "t", "i", "m", "a", "ç", "ã", "o">>,
     <<"c", "i", "t", "a", "c", "ã", "o">>, <<"G", "u", "i", "a">>}

IndexTexts ==
    Concats(IdFragments, MaxIndexFrags) \cup Concats(TypeFragments, MaxTypeFrags)

\* DocumentMetadata(document_ids=..., document_positions=...): the fields
\* not given keep their defaults
DocumentMetadata(document_ids, document_positions) ==
    [process_number |-> None, document_ids |-> document_ids,
     document_positions |-> document_positions,
     court |-> None, author |-> None, defendant |-> None]

InitIndex ==
    /\ idxText \in IndexTexts
    /\ idxIds = None
    /\ idxPositions = None
    /\ idxTable = None
    /\ idxType = None
    /\ idxPc = "ids"
    /\ NormIdle
    /\ RagIdle
    /\ PipeIdle
    /\ LateIdle

ExtractDocumentIds ==
    /\ idxPc = "ids"
    /\ idxIds' = extract_document_ids(idxText)
    /\ idxPc' = "positions"
    /\ UNCHANGED <<idxText, idxPositions, idxTable, idxType>>
    /\ UNCHANGED <<normVars, ragVars, pipeVars, lateVars>>

ExtractDocumentIdsWithPositions ==
    /\ idxPc = "positions"
    /\ idxPositions' = extract_document_ids_with_positions(idxText)
    /\ idxPc' = "table"
    /\ UNCHANGED <<idxText, idxIds, idxTable, idxType>>
    /\ UNCHANGED <<normVars, ragVars, pipeVars, lateVars>>

GenerateIndexTable ==
    /\ idxPc = "table"
    /\ idxTable' = generate_index_table(DocumentMetadata(idxIds, idxPositions))
    /\ idxPc' = "type"
    /\ UNCHANGED <<idxText, idxIds, idxPositions, idxType>>
    /\ UNCHANGED <<normVars, ragVars, pipeVars, lateVars>>

DetectType ==
    /\ idxPc = "type"
    /\ idxType' = detect_type(idxText)
    /\ idxPc' = "done"
    /\ UNCHANGED <<idxText, idxIds, idxPositions, idxTable>>
    /\ UNCHANGED <<normVars, ragVars, pipeVars, lateVars>>

NextIndex ==
    \/ ExtractDocumentIds
    \/ ExtractDocumentIdsWithPositions
    \/ GenerateIndexTable
    \/ DetectType

SpecIndex == InitIndex /\ [][NextIndex]_vars

(***************************************************************************)
(* The three runs that read a PDF: the worker task extract_pdf_task        *)
(* (src/lex_pdftotext/worker/tasks.py), extract_and_normalize_pdf of the   *)
(* command line (main.py) and the tool extract_legal_pdf of the MCP server *)
(* (mcp_server/server.py), one statement group per step.                   *)
(***************************************************************************)
\* TextNormalizer.normalize
normalize(text) ==
    final_cleanup(normalize_whitespace(normalize_uppercase(clean_noise(text))))

\* \n*---\s*PÁGINA\s+\d+\s*---\n* under re.IGNORECASE: the length of the match
\* that starts at i (0: none)
RemovedMarkerLen(s, i) ==
    LET a == SkipIn(s, i, {"\n"})
        b == SkipIn(s, a + 3, Whitespace)
        c == SkipIn(s, b + 6, Whitespace)
        d == SkipIn(s, c, Digits)
        e == SkipIn(s, d, Whitespace)
    IN IF /\ MatchAt(s, a, <<"-", "-", "-">>)
          /\ MatchAtI(s, b, <<"p", "á", "g", "i", "n", "a">>)
          /\ c > b + 6
          /\ d > c
          /\ MatchAt(s, e, <<"-", "-", "-">>)
       THEN SkipIn(s, e + 3, {"\n"}) - i ELSE 0

\* TextNormalizer.remove_page_markers
remove_page_markers(text) ==
    re_sub(text, [i \in 1..Len(text) |-> RemovedMarkerLen(text, i)],
           [i \in 1..Len(text) |-> <<"\n", "\n">>])

\* MetadataParser.parse(text) (processors/metadata_parser.py is not among
\* the files; written from its description and tests/test_metadata_positions.py):
\* the ids and the positions are those of the text it is given.  The texts of
\* the model name no process, court or party
parse(text) ==
    DocumentMetadata(extract_document_ids(text),
                     extract_document_ids_with_positions(text))

\* DocumentMetadata.to_dict: the fields of the record as a dict
to_dict(metadata) ==
    IF metadata = NoMetadata THEN None
    ELSE [k \in DOMAIN metadata |-> metadata[k]]

\* chunk_size when the options of a job name none
DEFAULT_CHUNK_SIZE == 1000

\* what the extractor may read from a PDF: ids, letters and white space ...
PipeFragments ==
    {<<"N", "u", "m", ".", " ", "1">>, <<" ">>, <<"\n">>, <<"a">>, <<"A">>}

\* ... and a page footer or a page marker
PageFragments ==
    {<<"N", "u", "m", ".", " ", "2", " ", "-", " ", "P", "á", "g", ".", " ", "1">>,
     <<"-", "-", "-", " ", "P", "Á", "G", "I", "N", "A", " ", "1", " ", "-", "-", "-">>}

PipeTexts ==
    Concats(PipeFragments, MaxPipeFrags)
    \cup {s \o f \o t : s \in Concats(PipeFragments, 1), f \in PageFragments,
                          t \in Concats(PipeFragments, 1)}

\* the options of a job of the worker: the markdown format with chunks, or
\* the text format (the other branches call formatters that are not among
\* the files)
WorkerOptions ==
    [normalize : BOOLEAN, include_metadata : BOOLEAN, indexed : {FALSE},
     format : {"markdown"}, chunk_for_rag : {TRUE},
     chunk_size : {0, MaxPipeChunkSize, DEFAULT_CHUNK_SIZE}, exists : BOOLEAN]
    \cup
    [normalize : BOOLEAN, include_metadata : BOOLEAN, indexed : {FALSE},
     format : {"text"}, chunk_for_rag : {FALSE},
     chunk_size : {DEFAULT_CHUNK_SIZE}, exists : BOOLEAN]

\* the argument normalize of extract_and_normalize_pdf
CliOptions ==
    [normalize : BOOLEAN, include_metadata : {TRUE}, indexed : {FALSE},
     format : {"markdown"}, chunk_for_rag : {FALSE},
     chunk_size : {DEFAULT_CHUNK_SIZE}, exists : {TRUE}]

\* the arguments of extract_legal_pdf
McpOptions ==
    [normalize : BOOLEAN, include_metadata : BOOLEAN, indexed : BOOLEAN,
     format : {"markdown"}, chunk_for_rag : {FALSE},
     chunk_size : {DEFAULT_CHUNK_SIZE}, exists : BOOLEAN]

InitPipe ==
    /\ pEntry \in {"worker", "cli", "mcp"}
    /\ pOpts \in CASE pEntry = "worker" -> WorkerOptions
                   [] pEntry = "cli" -> CliOptions
                   [] OTHER -> McpOptions
    /\ pRaw \in PipeTexts
    /\ pText = <<>>
    /\ pPositions = <<>>
    /\ pMeta = NoMetadata
    /\ pParsed = NoMetadata
    /\ pResult = None
    /\ pStatus = None
    /\ pPc = IF pEntry = "cli" THEN "normalize" ELSE "read"
    /\ NormIdle
    /\ RagIdle
    /\ IdxIdle
    /\ LateIdle

\* extract_pdf_task up to "Processing text": a file that is missing raises
\* FileNotFoundError, which the handler at the end turns into status failed
TaskRead ==
    /\ pEntry = "worker" /\ pPc = "read"
    /\ IF pOpts.exists
       THEN /\ pStatus' = [status |-> "started", progress |-> 40]
            /\ pResult' = pResult
            /\ pPc' = "normalize"
       ELSE /\ pStatus' = [status |-> "failed", progress |-> 0]
            /\ pResult' = [kind |-> "error", error |-> "FileNotFoundError"]
            /\ pPc' = "done"
    /\ UNCHANGED <<pEntry, pOpts, pRaw, pText, pPositions, pMeta, pParsed>>
    /\ UNCHANGED <<normVars, ragVars, idxVars, lateVars>>

\* text = raw_text; if options.get("normalize", True): text = normalize(raw_text)
TaskNormalize ==
    /\ pEntry = "worker" /\ pPc = "normalize"
    /\ pText' = IF pOpts.normalize THEN normalize(pRaw) ELSE pRaw
    /\ pStatus' = [status |-> "started", progress |-> 60]
    /\ pPc' = "parse"
    /\ UNCHANGED <<pEntry, pOpts, pRaw, pPositions, pMeta, pParsed, pResult>>
    /\ UNCHANGED <<normVars, ragVars, idxVars, lateVars>>

\* if options.get("include_metadata", True): metadata = parser.parse(text)
TaskParse ==
    /\ pEntry = "worker" /\ pPc = "parse"
    /\ pMeta' = IF pOpts.include_metadata THEN parse(pText) ELSE NoMetadata
    /\ pParsed' = pMeta'
    /\ pStatus' = [status |-> "started", progress |-> 80]
    /\ pPc' = "format"
    /\ UNCHANGED <<pEntry, pOpts, pRaw, pText, pPositions, pResult>>
    /\ UNCHANGED <<normVars, ragVars, idxVars, lateVars>>

\* the result is built, saved, and the status becomes finished.
\* format_for_rag parses the text itself when it is given no metadata
TaskFormat ==
    /\ pEntry = "worker" /\ pPc = "format"
    /\ pResult' =
          IF pOpts.format = "markdown" /\ pOpts.chunk_for_rag
          THEN LET metadata == IF pMeta = NoMetadata THEN parse(pText) ELSE pMeta
                   chunks == format_for_rag(pText, metadata, pOpts.chunk_size)
               IN [kind |-> "chunks", chunks |-> chunks,
                   total_chunks |-> Len(chunks), metadata |-> to_dict(pMeta)]
          ELSE [kind |-> "text", text |-> pText, metadata |-> to_dict(pMeta)]
    /\ pStatus' = [status |-> "finished", progress |-> 100]
    /\ pPc' = "done"
    /\ UNCHANGED <<pEntry, pOpts, pRaw, pText, pPositions, pMeta, pParsed>>
    /\ UNCHANGED <<normVars, ragVars, idxVars, lateVars>>

\* extract_and_normalize_pdf: processed_text
CliNormalize ==
    /\ pEntry = "cli" /\ pPc = "normalize"
    /\ pText' = IF pOpts.normalize
                THEN remove_page_markers(normalize(pRaw)) ELSE pRaw
    /\ pPc' = "parse"
    /\ UNCHANGED <<pEntry, pOpts, pRaw, pPositions, pMeta, pParsed, pResult,
                   pStatus>>
    /\ UNCHANGED <<normVars, ragVars, idxVars, lateVars>>

\* doc_metadata = metadata_parser.parse(processed_text), and the return
CliParse ==
    /\ pEntry = "cli" /\ pPc = "parse"
    /\ pMeta' = parse(pText)
    /\ pParsed' = pMeta'
    /\ pResult' = [kind |-> "tuple", raw_text |-> pRaw,
                   processed_text |-> pText]
    /\ pPc' = "done"
    /\ UNCHANGED <<pEntry, pOpts, pRaw, pText, pPositions, pStatus>>
    /\ UNCHANGED <<normVars, ragVars, idxVars, lateVars>>

\* extract_legal_pdf: a path that is missing or a PDF without text ends the
\* run with a message
McpRead ==
    /\ pEntry = "mcp" /\ pPc = "read"
    /\ IF ~pOpts.exists
       THEN pResult' = [kind |-> "error", error |-> "not found"] /\ pPc' = "done"
       ELSE IF pRaw = <<>> \/ strip(pRaw) = <<>>
       THEN pResult' = [kind |-> "error", error |-> "no text"] /\ pPc' = "done"
       ELSE pResult' = pResult /\ pPc' = "positions"
    /\ UNCHANGED <<pEntry, pOpts, pRaw, pText, pPositions, pMeta, pParsed,
                   pStatus>>
    /\ UNCHANGED <<normVars, ragVars, idxVars, lateVars>>

\* document_positions = []; if indexed: ... = extract_..._with_positions(raw_text)
McpPositions ==
    /\ pEntry = "mcp" /\ pPc = "positions"
    /\ pPositions' = IF pOpts.indexed
                     THEN extract_document_ids_with_positions(pRaw) ELSE <<>>
    /\ pPc' = "normalize"
    /\ UNCHANGED <<pEntry, pOpts, pRaw, pText, pMeta, pParsed, pResult, pStatus>>
    /\ UNCHANGED <<normVars, ragVars, idxVars, lateVars>>

\* text = raw_text; if normalize: text = normalizer.normalize(raw_text)
McpNormalize ==
    /\ pEntry = "mcp" /\ pPc = "normalize"
    /\ pText' = IF pOpts.normalize THEN normalize(pRaw) ELSE pRaw
    /\ pPc' = IF pOpts.include_metadata THEN "parse" ELSE "format"
    /\ UNCHANGED <<pEntry, pOpts, pRaw, pPositions, pMeta, pParsed, pResult,
                   pStatus>>
    /\ UNCHANGED <<normVars, ragVars, idxVars, lateVars>>

\* metadata = parser.parse(raw_text)
McpParse ==
    /\ pEntry = "mcp" /\ pPc = "parse"
    /\ pMeta' = parse(pRaw)
    /\ pParsed' = pMeta'
    /\ pPc' = "attach"
    /\ UNCHANGED <<pEntry, pOpts, pRaw, pText, pPositions, pResult, pStatus>>
    /\ UNCHANGED <<normVars, ragVars, idxVars, lateVars>>

\* metadata.document_positions = document_positions
McpAttach ==
    /\ pEntry = "mcp" /\ pPc = "attach"
    /\ pMeta' = [pMeta EXCEPT !.document_positions = pPositions]
    /\ pPc' = "format"
    /\ UNCHANGED <<pEntry, pOpts, pRaw, pText, pPositions, pParsed, pResult,
                   pStatus>>
    /\ UNCHANGED <<normVars, ragVars, idxVars, lateVars>>

\* the formatter is chosen and the output returned (the formatter of the
\* server is not among the files: the output is the call that makes it)
McpFormat ==
    /\ pEntry = "mcp" /\ pPc = "format"
    /\ pResult' = [kind |-> "output",
                   call |-> IF pOpts.indexed /\ pMeta # NoMetadata
                            THEN "format_with_index"
                            ELSE IF pOpts.include_metadata /\ pMeta # NoMetadata
                            THEN "format, include_metadata=True"
                            ELSE "format, include_metadata=False"]
    /\ pPc' = "done"
    /\ UNCHANGED <<pEntry, pOpts, pRaw, pText, pPositions, pMeta, pParsed,
                   pStatus>>
    /\ UNCHANGED <<normVars, ragVars, idxVars, lateVars>>

NextPipe ==
    \/ TaskRead
    \/ TaskNormalize
    \/ TaskParse
    \/ TaskFormat
    \/ CliNormalize
    \/ CliParse
    \/ McpRead
    \/ McpPositions
    \/ McpNormalize
    \/ McpParse
    \/ McpAttach
    \/ McpFormat

SpecPipe == InitPipe /\ [][NextPipe]_vars

AnchorRestIdle ==
    /\ JobIdle
    /\ RateIdle
    /\ KeysIdle
    /\ StorageIdle
    /\ SaveIdle
    /\ SectionsIdle

JobsRestIdle ==
    /\ AnchorIdle
    /\ RateIdle
    /\ KeysIdle
    /\ StorageIdle
    /\ SaveIdle
    /\ SectionsIdle

RateRestIdle ==
    /\ AnchorIdle
    /\ JobIdle
    /\ KeysIdle
    /\ StorageIdle
    /\ SaveIdle
    /\ SectionsIdle

KeysRestIdle ==
    /\ AnchorIdle
    /\ JobIdle
    /\ RateIdle
    /\ StorageIdle
    /\ SaveIdle
    /\ SectionsIdle

StorageRestIdle ==
    /\ AnchorIdle
    /\ JobIdle
    /\ RateIdle
    /\ KeysIdle
    /\ SaveIdle
    /\ SectionsIdle

SaveRestIdle ==
    /\ AnchorIdle
    /\ JobIdle
    /\ RateIdle
    /\ KeysIdle
    /\ StorageIdle
    /\ SectionsIdle

SectionsRestIdle ==
    /\ AnchorIdle
    /\ JobIdle
    /\ RateIdle
    /\ KeysIdle
    /\ StorageIdle
    /\ SaveIdle

\* the four specifications above at rest
EarlyIdle ==
    /\ NormIdle
    /\ RagIdle
    /\ IdxIdle
    /\ PipeIdle

(***************************************************************************)
(* IndexGenerator.generate_anchor and generate_cross_reference, called any *)
(* number of times, in any order, on the ids the caller holds.             *)
(***************************************************************************)
\* IndexGenerator.generate_cross_reference
generate_cross_reference(doc_id) ==
    LET anchor == generate_anchor(doc_id)
    IN <<"[", "#">> \o doc_id \o <<"]", "(", "#">> \o anchor \o <<")">>

\* the characters of a document id
AnchorIdChars == {"1", "2"}

\* the ids a caller may hold
AnchorIds == Concats({<<c>> : c \in AnchorIdChars}, MaxIdLen)

InitAnchor ==
    /\ aIds \in AnchorIds \X AnchorIds
    /\ aLog = <<>>
    /\ EarlyIdle
    /\ AnchorRestIdle

\* anchor = index_gen.generate_anchor(doc_id)
GenerateAnchor ==
    /\ aIds # <<>>
    /\ Len(aLog) < MaxAnchorCalls
    /\ \E k \in 1..2 :
          aLog' = Append(aLog, [call |-> "generate_anchor", doc_id |-> aIds[k],
                                result |-> generate_anchor(aIds[k])])
    /\ UNCHANGED aIds
    /\ UNCHANGED <<earlyVars, anchorRest>>

\* ref = index_gen.generate_cross_reference(doc_id)
GenerateCrossReference ==
    /\ aIds # <<>>
    /\ Len(aLog) < MaxAnchorCalls
    /\ \E k \in 1..2 :
          aLog' = Append(aLog, [call |-> "generate_cross_reference",
                                doc_id |-> aIds[k],
                                result |-> generate_cross_reference(aIds[k])])
    /\ UNCHANGED aIds
    /\ UNCHANGED <<earlyVars, anchorRest>>

NextAnchor ==
    \/ GenerateAnchor
    \/ GenerateCrossReference

SpecAnchor == InitAnchor /\ [][NextAnchor]_vars

(***************************************************************************)
(* One job of the API (src/lex_pdftotext/api/main.py) and the worker task  *)
(* that runs it (src/lex_pdftotext/worker/tasks.py).  The API process and  *)
(* the worker process share Redis and the upload directory; every Redis    *)
(* command is one step, and the steps of the two processes interleave.     *)
(* The handlers of the API have no await between their Redis commands, so  *)
(* requests are served one after the other.                                *)
(***************************************************************************)
\* ttl of save_result, in seconds
RESULT_TTL == 86400

\* redis.hset(f"job:{job_id}", mapping=data) of update_job_status: the fields
\* of data are written, the other fields of the hash stay
update_job_status(hash, status, progress, now) ==
    LET old == IF hash = NoJob
               THEN [status |-> status, progress |-> progress,
                     updated_at |-> now, started_at |-> NoTime,
                     finished_at |-> NoTime]
               ELSE hash
    IN [old EXCEPT !.status = status,
                   !.progress = progress,
                   !.updated_at = now,
                   !.started_at = IF status = "started" THEN now ELSE @,
                   !.finished_at = IF status \in {"finished", "failed"}
                                   THEN now ELSE @]

\* redis.get(f"result:{job_id}"): a key whose ttl has run out is gone
live_result(result, now) ==
    IF result # NoResult /\ now < result.expires_at THEN result ELSE NoResult

\* get_job_status: the response for the hash Redis holds
get_job_status(hash) ==
    IF hash = NoJob
    THEN [code |-> 404, detail |-> "Job not found"]
    ELSE [code |-> 200, status |-> hash.status, started_at |-> hash.started_at,
          finished_at |-> hash.finished_at, progress |-> hash.progress,
          result_url |-> hash.status = "finished"]

\* get_job_result (download=False): the response for what Redis holds
get_job_result(hash, result) ==
    IF hash = NoJob
    THEN [code |-> 404, detail |-> "Job not found"]
    ELSE IF hash.status # "finished"
    THEN [code |-> 400, detail |-> "Job is not finished"]
    ELSE IF result # NoResult
    THEN [code |-> 200, detail |-> "result"]
    ELSE [code |-> 404, detail |-> "Result not found"]

InitJobs ==
    /\ jHash = NoJob
    /\ jResult = NoResult
    /\ jQueue = "none"
    /\ jFile = FALSE
    /\ jTask = "waiting"
    /\ jDel = "idle"
    /\ jNow = 0
    /\ jTicks = 0
    /\ jStatusResp = NoResponse
    /\ jResultResp = NoResponse
    /\ jFirstStarted = NoTime
    /\ EarlyIdle
    /\ JobsRestIdle

\* POST /extract: the upload is saved, the task is enqueued (RQ keeps its own
\* record of the job under rq:job:<job_id>) and the job id is returned with
\* status queued
PostExtract ==
    /\ jQueue = "none"
    /\ jFile' = TRUE
    /\ jQueue' = "queued"
    /\ UNCHANGED <<jHash, jResult, jTask, jDel, jNow, jTicks, jStatusResp,
                   jResultResp, jFirstStarted>>
    /\ UNCHANGED <<earlyVars, jobsRest>>

\* time passes
JobTick ==
    /\ jQueue # "none"
    /\ jTicks < MaxTicks
    /\ \E d \in {1, RESULT_TTL} : jNow' = jNow + d
    /\ jTicks' = jTicks + 1
    /\ UNCHANGED <<jHash, jResult, jQueue, jFile, jTask, jDel, jStatusResp,
                   jResultResp, jFirstStarted>>
    /\ UNCHANGED <<earlyVars, jobsRest>>

\* GET /jobs/{job_id}
GetJobStatus ==
    /\ jQueue # "none"
    /\ jDel \in {"idle", "done"}
    /\ jStatusResp' = [response |-> get_job_status(jHash), queue |-> jQueue]
    /\ UNCHANGED <<jHash, jResult, jQueue, jFile, jTask, jDel, jNow, jTicks,
                   jResultResp, jFirstStarted>>
    /\ UNCHANGED <<earlyVars, jobsRest>>

\* GET /jobs/{job_id}/result
GetJobResult ==
    /\ jQueue # "none"
    /\ jDel \in {"idle", "done"}
    /\ jResultResp' = [response |-> get_job_result(jHash, live_result(jResult, jNow)),
                       status |-> get_job_status(jHash)]
    /\ UNCHANGED <<jHash, jResult, jQueue, jFile, jTask, jDel, jNow, jTicks,
                   jStatusResp, jFirstStarted>>
    /\ UNCHANGED <<earlyVars, jobsRest>>

\* DELETE /jobs/{job_id}: redis.exists, and 404 when the hash is not there
DeleteJobExists ==
    /\ jQueue # "none"
    /\ jDel = "idle"
    /\ jDel' = IF jHash = NoJob THEN "idle" ELSE "job"
    /\ jStatusResp' = IF jHash = NoJob THEN jStatusResp ELSE NoResponse
    /\ jResultResp' = IF jHash = NoJob THEN jResultResp ELSE NoResponse
    /\ UNCHANGED <<jHash, jResult, jQueue, jFile, jTask, jNow, jTicks,
                   jFirstStarted>>
    /\ UNCHANGED <<earlyVars, jobsRest>>

\* redis.delete(f"job:{job_id}")
DeleteJobHash ==
    /\ jDel = "job"
    /\ jHash' = NoJob
    /\ jDel' = "result"
    /\ UNCHANGED <<jResult, jQueue, jFile, jTask, jNow, jTicks, jStatusResp,
                   jResultResp, jFirstStarted>>
    /\ UNCHANGED <<earlyVars, jobsRest>>

\* redis.delete(f"result:{job_id}")
DeleteJobResult ==
    /\ jDel = "result"
    /\ jResult' = NoResult
    /\ jDel' = "files"
    /\ UNCHANGED <<jHash, jQueue, jFile, jTask, jNow, jTicks, jStatusResp,
                   jResultResp, jFirstStarted>>
    /\ UNCHANGED <<earlyVars, jobsRest>>

\* cleanup_job_files(job_id), and the success message is returned
DeleteJobFiles ==
    /\ jDel = "files"
    /\ jFile' = FALSE
    /\ jDel' = "done"
    /\ UNCHANGED <<jHash, jResult, jQueue, jTask, jNow, jTicks, jStatusResp,
                   jResultResp, jFirstStarted>>
    /\ UNCHANGED <<earlyVars, jobsRest>>

\* a worker takes the job off the queue: extract_pdf_task starts with
\* update_job_status(job_id, "started", progress=0)
JobStart ==
    /\ jQueue = "queued"
    /\ jQueue' = "taken"
    /\ jHash' = update_job_status(jHash, "started", 0, jNow)
    /\ jFirstStarted' = jNow
    /\ jTask' = "exists"
    /\ UNCHANGED <<jResult, jFile, jDel, jNow, jTicks, jStatusResp, jResultResp>>
    /\ UNCHANGED <<earlyVars, jobsRest>>

\* if not filepath_obj.exists(): raise; update_job_status("started", 10)
JobCheckFile ==
    /\ jTask = "exists"
    /\ IF jFile
       THEN /\ jHash' = update_job_status(jHash, "started", 10, jNow)
            /\ jTask' = "extract"
       ELSE /\ jHash' = jHash
            /\ jTask' = "except"
    /\ UNCHANGED <<jResult, jQueue, jFile, jDel, jNow, jTicks, jStatusResp,
                   jResultResp, jFirstStarted>>
    /\ UNCHANGED <<earlyVars, jobsRest>>

\* the extractor opens the file (it raises when the file is gone);
\* update_job_status("started", 40)
JobExtract ==
    /\ jTask = "extract"
    /\ IF jFile
       THEN /\ jHash' = update_job_status(jHash, "started", 40, jNow)
            /\ jTask' = "normalize"
       ELSE /\ jHash' = jHash
            /\ jTask' = "except"
    /\ UNCHANGED <<jResult, jQueue, jFile, jDel, jNow, jTicks, jStatusResp,
                   jResultResp, jFirstStarted>>
    /\ UNCHANGED <<earlyVars, jobsRest>>

\* the text is normalized; update_job_status("started", 60)
JobNormalize ==
    /\ jTask = "normalize"
    /\ jHash' = update_job_status(jHash, "started", 60, jNow)
    /\ jTask' = "parse"
    /\ UNCHANGED <<jResult, jQueue, jFile, jDel, jNow, jTicks, jStatusResp,
                   jResultResp, jFirstStarted>>
    /\ UNCHANGED <<earlyVars, jobsRest>>

\* the metadata is parsed; update_job_status("started", 80)
JobParse ==
    /\ jTask = "parse"
    /\ jHash' = update_job_status(jHash, "started", 80, jNow)
    /\ jTask' = "save"
    /\ UNCHANGED <<jResult, jQueue, jFile, jDel, jNow, jTicks, jStatusResp,
                   jResultResp, jFirstStarted>>
    /\ UNCHANGED <<earlyVars, jobsRest>>

\* the output is formatted; save_result(job_id, result)
JobSaveResult ==
    /\ jTask = "save"
    /\ jResult' = [value |-> "result", expires_at |-> jNow + RESULT_TTL]
    /\ jTask' = "finish"
    /\ UNCHANGED <<jHash, jQueue, jFile, jDel, jNow, jTicks, jStatusResp,
                   jResultResp, jFirstStarted>>
    /\ UNCHANGED <<earlyVars, jobsRest>>

\* update_job_status(job_id, "finished", progress=100), and the return
JobFinish ==
    /\ jTask = "finish"
    /\ jHash' = update_job_status(jHash, "finished", 100, jNow)
    /\ jTask' = "returned"
    /\ UNCHANGED <<jResult, jQueue, jFile, jDel, jNow, jTicks, jStatusResp,
                   jResultResp, jFirstStarted>>
    /\ UNCHANGED <<earlyVars, jobsRest>>

\* except Exception: update_job_status(job_id, "failed", message=str(e)); raise
JobFail ==
    /\ jTask = "except"
    /\ jHash' = update_job_status(jHash, "failed", 0, jNow)
    /\ jTask' = "raised"
    /\ UNCHANGED <<jResult, jQueue, jFile, jDel, jNow, jTicks, jStatusResp,
                   jResultResp, jFirstStarted>>
    /\ UNCHANGED <<earlyVars, jobsRest>>

NextJobs ==
    \/ PostExtract
    \/ JobTick
    \/ GetJobStatus
    \/ GetJobResult
    \/ DeleteJobExists
    \/ DeleteJobHash
    \/ DeleteJobResult
    \/ DeleteJobFiles
    \/ JobStart
    \/ JobCheckFile
    \/ JobExtract
    \/ JobNormalize
    \/ JobParse
    \/ JobSaveResult
    \/ JobFinish
    \/ JobFail

SpecJobs == InitJobs /\ [][NextJobs]_vars

(***************************************************************************)
(* RateLimitMiddleware.dispatch (src/lex_pdftotext/api/middleware.py) for  *)
(* the requests of one API key that arrive within one minute of one hour.  *)
(* dispatch awaits call_next between reading the counters and incrementing *)
(* them, so the requests in flight interleave at that point.               *)
(***************************************************************************)
\* the requests of the key
RateRequests == 1..MaxRequests

\* (rate_limit_per_minute, rate_limit_per_hour) of the key
RateLimits == [per_minute : 1..MaxRateLimit, per_hour : 1..MaxRateLimit]

InitRate ==
    /\ rLimits \in RateLimits
    /\ rMinute = 0
    /\ rHour = 0
    /\ rReqs = [r \in RateRequests |-> [pc |-> "new", status |-> 0,
                                        minute_count |-> 0, hour_count |-> 0]]
    /\ rPassed = 0
    /\ EarlyIdle
    /\ RateRestIdle

\* the two counters are read and compared with the limits: the request is
\* answered 429, or handed to call_next
RateCheck ==
    \E r \in RateRequests :
        /\ rLimits # NoLimits
        /\ rReqs[r].pc = "new"
        /\ LET minute_count == rMinute
               hour_count == rHour
           IN IF minute_count >= rLimits.per_minute \/ hour_count >= rLimits.per_hour
              THEN /\ rReqs' = [rReqs EXCEPT ![r] =
                                   [pc |-> "done", status |-> 429,
                                    minute_count |-> minute_count,
                                    hour_count |-> hour_count]]
                   /\ rPassed' = rPassed
              ELSE /\ rReqs' = [rReqs EXCEPT ![r] =
                                   [pc |-> "call_next", status |-> 0,
                                    minute_count |-> minute_count,
                                    hour_count |-> hour_count]]
                   /\ rPassed' = rPassed + 1
        /\ UNCHANGED <<rLimits, rMinute, rHour>>
        /\ UNCHANGED <<earlyVars, rateRest>>

\* call_next has returned: both counters are incremented in one pipeline and
\* the response of the application is returned
RateIncrement ==
    \E r \in RateRequests :
        /\ rReqs[r].pc = "call_next"
        /\ rMinute' = rMinute + 1
        /\ rHour' = rHour + 1
        /\ rReqs' = [rReqs EXCEPT ![r].pc = "done", ![r].status = 200]
        /\ UNCHANGED <<rLimits, rPassed>>
        /\ UNCHANGED <<earlyVars, rateRest>>

NextRate ==
    \/ RateCheck
    \/ RateIncrement

SpecRate == InitRate /\ [][NextRate]_vars

(***************************************************************************)
(* DELETE /api-keys/{key_id} (src/lex_pdftotext/api/routes_keys.py) with   *)
(* its dependency require_admin (api/auth.py).  delete_api_key is an async *)
(* function without await, so one server process runs it from its first    *)
(* query to its commit without serving another request; two server         *)
(* processes on the same database interleave statement by statement.       *)
(***************************************************************************)
\* the ids of the rows of the table of API keys, the server processes and
\* the requests
KeyIds == 1..MaxKeys
KeyServers == 1..MaxKeyServers
KeyRequests == 1..MaxKeyRequests

InitKeys ==
    /\ kKeys = KeyIds
    /\ kAdmins \in {A \in SUBSET KeyIds : A # {}}
    /\ kReqs \in [KeyRequests -> [auth : kAdmins, key_id : KeyIds,
                                  server : KeyServers, pc : {"auth"},
                                  status : {0}]]
    /\ EarlyIdle
    /\ KeysRestIdle

\* the server process of request r runs no handler of another request
ServerFree(r) ==
    \A q \in KeyRequests \ {r} :
        kReqs[q].server = kReqs[r].server => kReqs[q].pc # "delete"

\* require_admin: the key of the request is looked up; 401 when it is not in
\* the table, 403 when it is not an admin key
RequireAdmin ==
    \E r \in KeyRequests :
        /\ kReqs[r].pc = "auth"
        /\ kReqs' = [kReqs EXCEPT ![r] =
                        IF kReqs[r].auth \notin kKeys
                        THEN [@ EXCEPT !.pc = "done", !.status = 401]
                        ELSE IF kReqs[r].auth \notin kAdmins
                        THEN [@ EXCEPT !.pc = "done", !.status = 403]
                        ELSE [@ EXCEPT !.pc = "handler"]]
        /\ UNCHANGED <<kKeys, kAdmins>>
        /\ UNCHANGED <<earlyVars, keysRest>>

\* delete_api_key up to db.delete: the row is queried (404 when there is
\* none) and, for an admin key, the admin keys are counted (400 when the
\* count is at most one)
DeleteApiKeyCheck ==
    \E r \in KeyRequests :
        /\ kReqs[r].pc = "handler"
        /\ ServerFree(r)
        /\ LET key_id == kReqs[r].key_id
               admin_count == Cardinality(kKeys \cap kAdmins)
           IN kReqs' = [kReqs EXCEPT ![r] =
                           IF key_id \notin kKeys
                           THEN [@ EXCEPT !.pc = "done", !.status = 404]
                           ELSE IF key_id \in kAdmins /\ admin_count <= 1
                           THEN [@ EXCEPT !.pc = "done", !.status = 400]
                           ELSE [@ EXCEPT !.pc = "delete"]]
        /\ UNCHANGED <<kKeys, kAdmins>>
        /\ UNCHANGED <<earlyVars, keysRest>>

\* db.delete(api_key); db.commit(): the row is deleted; when another request
\* has deleted it meanwhile the flush finds no row and the request fails
DeleteApiKeyCommit ==
    \E r \in KeyRequests :
        /\ kReqs[r].pc = "delete"
        /\ kKeys' = kKeys \ {kReqs[r].key_id}
        /\ kReqs' = [kReqs EXCEPT ![r].pc = "done",
                                  ![r].status = IF kReqs[r].key_id \in kKeys
                                                THEN 204 ELSE 500]
        /\ UNCHANGED kAdmins
        /\ UNCHANGED <<earlyVars, keysRest>>

NextKeys ==
    \/ RequireAdmin
    \/ DeleteApiKeyCheck
    \/ DeleteApiKeyCommit

SpecKeys == InitKeys /\ [][NextKeys]_vars

(***************************************************************************)
(* LocalStorage (src/lex_pdftotext/storage/local.py) on a file system.  A  *)
(* path string is a text; a location of the file system is the sequence of *)
(* its directory names from the root, and the files are the set of the     *)
(* locations that hold one.                                                *)
(***************************************************************************)
\* the components of a path string between its "/", as pathlib keeps them:
\* empty components and "." are dropped
RECURSIVE PathParts(_, _, _, _)
PathParts(s, i, cur, acc) ==
    LET keep == IF cur = <<>> \/ cur = <<".">> THEN acc ELSE Append(acc, cur)
    IN IF i > Len(s) THEN keep
       ELSE IF s[i] = "/" THEN PathParts(s, i + 1, <<>>, keep)
       ELSE PathParts(s, i + 1, Append(cur, s[i]), acc)

path_parts(s) == PathParts(s, 1, <<>>, <<>>)

\* Path(path).is_absolute()
is_absolute(s) == s # <<>> /\ s[1] = "/"

\* Path(path).name: the last component, "" when there is none
path_name(s) ==
    LET parts == path_parts(s)
    IN IF parts = <<>> THEN <<>> ELSE parts[Len(parts)]

\* where the file system finds a path given by its components from the
\* root: ".." is the parent directory, and the parent of the root is the root
RECURSIVE Locate(_, _, _)
Locate(parts, i, acc) ==
    IF i > Len(parts) THEN acc
    ELSE IF parts[i] = <<".", ".">>
    THEN Locate(parts, i + 1, IF acc = <<>> THEN acc ELSE SubSeq(acc, 1, Len(acc) - 1))
    ELSE Locate(parts, i + 1, Append(acc, parts[i]))

\* base_path of the storage: the directory /b
BasePath == << <<"b">> >>

\* safe_path of _resolve_path
safe_path(path) ==
    IF is_in(<<".", ".">>, path) THEN path_name(path) ELSE path

\* LocalStorage._resolve_path: self.base_path / safe_path, where an absolute
\* right operand of / replaces the left one; the location the result names
resolve_path(path) ==
    LET safe == safe_path(path)
        parts == IF is_absolute(safe) THEN path_parts(safe)
                 ELSE BasePath \o path_parts(safe)
    IN Locate(parts, 1, <<>>)

\* location a is location b or above it
IsAbove(a, b) == Len(a) <= Len(b) /\ SubSeq(b, 1, Len(a)) = a

\* filepath.is_dir(): the root, the base directory, and every directory that
\* holds a file
is_dir(files, loc) ==
    \/ IsAbove(loc, BasePath)
    \/ \E f \in files : IsAbove(loc, f) /\ loc # f

\* filepath.exists()
path_exists(files, loc) == loc \in files \/ is_dir(files, loc)

\* the characters of a path string and the path strings given to the storage
PathChars == {"a", ".", "/"}
StoragePaths == Concats({<<c>> : c \in PathChars}, MaxPathLen)

\* the files of the file system at the start: one outside the base
\* directory, one inside, both or none
InitStorage ==
    /\ sFiles \in SUBSET { << <<"a">> >>, << <<"b">>, <<"a">> >> }
    /\ sLast = NoAccess
    /\ sCalls = 0
    /\ EarlyIdle
    /\ StorageRestIdle

\* LocalStorage.save: the file is written; open() raises when the location
\* is a directory, mkdir when a file is in the way of the parent directory
StorageSave ==
    \E path \in StoragePaths :
        /\ sCalls < MaxStorageCalls
        /\ LET filepath == resolve_path(path)
               blocked == \/ is_dir(sFiles, filepath)
                          \/ \E f \in sFiles : IsAbove(f, filepath) /\ f # filepath
           IN /\ sFiles' = IF blocked THEN sFiles ELSE sFiles \cup {filepath}
              /\ sLast' = [op |-> "save", path |-> path, location |-> filepath,
                           outcome |-> IF blocked THEN "raises" ELSE "written"]
        /\ sCalls' = sCalls + 1
        /\ UNCHANGED <<earlyVars, storageRest>>

\* LocalStorage.load
StorageLoad ==
    \E path \in StoragePaths :
        /\ sCalls < MaxStorageCalls
        /\ LET filepath == resolve_path(path)
           IN sLast' = [op |-> "load", path |-> path, location |-> filepath,
                        outcome |-> IF filepath \in sFiles THEN "read"
                                    ELSE "raises"]
        /\ sCalls' = sCalls + 1
        /\ UNCHANGED sFiles
        /\ UNCHANGED <<earlyVars, storageRest>>

\* LocalStorage.delete: rmtree for a directory, unlink for a file
StorageDelete ==
    \E path \in StoragePaths :
        /\ sCalls < MaxStorageCalls
        /\ LET filepath == resolve_path(path)
           IN /\ sFiles' = {f \in sFiles : ~IsAbove(filepath, f)}
              /\ sLast' = [op |-> "delete", path |-> path, location |-> filepath,
                           outcome |-> IF path_exists(sFiles, filepath)
                                       THEN "deleted" ELSE "absent"]
        /\ sCalls' = sCalls + 1
        /\ UNCHANGED <<earlyVars, storageRest>>

\* LocalStorage.exists
StorageExists ==
    \E path \in StoragePaths :
        /\ sCalls < MaxStorageCalls
        /\ LET filepath == resolve_path(path)
           IN sLast' = [op |-> "exists", path |-> path, location |-> filepath,
                        outcome |-> IF path_exists(sFiles, filepath)
                                    THEN "True" ELSE "False"]
        /\ sCalls' = sCalls + 1
        /\ UNCHANGED sFiles
        /\ UNCHANGED <<earlyVars, storageRest>>

\* LocalStorage.list_files: the files under the directory of the prefix;
\* relative_to raises for a file that is not under base_path
StorageListFiles ==
    \E path \in StoragePaths :
        /\ sCalls < MaxStorageCalls
        /\ LET search_path == IF path # <<>> THEN resolve_path(path) ELSE BasePath
               found == {f \in sFiles : IsAbove(search_path, f)}
           IN sLast' = [op |-> "list_files", path |-> path,
                        location |-> search_path,
                        outcome |-> IF ~is_dir(sFiles, search_path) THEN "empty"
                                    ELSE IF \E f \in found : ~IsAbove(BasePath, f)
                                    THEN "raises" ELSE "listed"]
        /\ sCalls' = sCalls + 1
        /\ UNCHANGED sFiles
        /\ UNCHANGED <<earlyVars, storageRest>>

NextStorage ==
    \/ StorageSave
    \/ StorageLoad
    \/ StorageDelete
    \/ StorageExists
    \/ StorageListFiles

SpecStorage == InitStorage /\ [][NextStorage]_vars

(***************************************************************************)
(* MarkdownFormatter.save_to_file (src/formatters/markdown_formatter.py)   *)
(* on the directory of output_path: the file at output_path and the        *)
(* temporary file of mkstemp.  A file holds bytes; writing, syncing and    *)
(* renaming may fail.                                                      *)
(***************************************************************************)
\* the characters of a content: "U+D800" stands for a lone surrogate, which
\* UTF-8 cannot encode
ContentChars == {"a", "é", "\n", "U+D800"}

\* the UTF-8 bytes of a character that has some
Utf8 == [c \in {"a", "é", "\n"} |->
            CASE c = "a" -> <<97>>
              [] c = "\n" -> <<10>>
              [] OTHER -> <<195, 169>>]

\* how many leading characters of a text UTF-8 can encode
RECURSIVE Encodable(_, _)
Encodable(content, i) ==
    IF i > Len(content) \/ content[i] \notin DOMAIN Utf8 THEN i - 1
    ELSE Encodable(content, i + 1)

\* content.encode("utf-8") of an encodable text
RECURSIVE encode(_, _)
encode(content, i) ==
    IF i > Len(content) THEN <<>>
    ELSE Utf8[content[i]] \o encode(content, i + 1)

\* bytes.decode("utf-8"): what a reader of the file gets
RECURSIVE decode(_, _)
decode(bytes, i) ==
    IF i > Len(bytes) THEN <<>>
    ELSE IF bytes[i] = 97 THEN <<"a">> \o decode(bytes, i + 1)
    ELSE IF bytes[i] = 10 THEN <<"\n">> \o decode(bytes, i + 1)
    ELSE IF bytes[i] = 195 /\ i < Len(bytes) /\ bytes[i + 1] = 169
    THEN <<"é">> \o decode(bytes, i + 2)
    ELSE <<"U+FFFD">> \o decode(bytes, i + 1)

\* the contents given to save_to_file, and what output_path held before
SaveContents == Concats({<<c>> : c \in ContentChars}, MaxContentLen)
OldFiles == {NoFile, [bytes |-> <<>>], [bytes |-> <<97>>]}

\* a cleanup that leaves the temporary file where it is
unlink_kept(file) == file

\* os.unlink(temp_path)
unlink(file) == NoFile

InitSave ==
    /\ fContent \in SaveContents
    /\ fOld \in OldFiles
    /\ fOut = fOld
    /\ fTemp = NoFile
    /\ fPc = "mkstemp"
    /\ EarlyIdle
    /\ SaveRestIdle

\* output_path.parent.mkdir and tempfile.mkstemp: the temporary file is
\* created empty, or the call raises before there is one
SaveMkstemp ==
    /\ fPc = "mkstemp"
    /\ \/ fTemp' = [bytes |-> <<>>] /\ fPc' = "write"
       \/ fTemp' = fTemp /\ fPc' = "raised before try"
    /\ UNCHANGED <<fContent, fOld, fOut>>
    /\ UNCHANGED <<earlyVars, saveRest>>

\* f.write(content); f.flush(); os.fsync(...): all the bytes reach the file,
\* or the encoder or the disk fails after some of them
SaveWrite ==
    /\ fPc = "write"
    /\ LET n == Encodable(fContent, 1)
           bytes == encode(SubSeq(fContent, 1, n), 1)
       IN \/ /\ n = Len(fContent)
             /\ fTemp' = [bytes |-> bytes]
             /\ fPc' \in {"replace", "except"}
          \/ /\ \E k \in 0..Len(bytes) :
                   /\ k < Len(bytes) \/ n < Len(fContent)
                   /\ fTemp' = [bytes |-> SubSeq(bytes, 1, k)]
             /\ fPc' = "except"
    /\ UNCHANGED <<fContent, fOld, fOut>>
    /\ UNCHANGED <<earlyVars, saveRest>>

\* os.replace(temp_path, output_path): the rename happens whole or not at all
SaveReplace ==
    /\ fPc = "replace"
    /\ \/ fOut' = fTemp /\ fTemp' = NoFile /\ fPc' = "returned"
       \/ fOut' = fOut /\ fTemp' = fTemp /\ fPc' = "except"
    /\ UNCHANGED <<fContent, fOld>>
    /\ UNCHANGED <<earlyVars, saveRest>>

\* except Exception: the temporary file is removed if it exists, and the
\* exception is raised again
SaveCleanup ==
    /\ fPc = "except"
    /\ fTemp' = IF fTemp # NoFile THEN unlink(fTemp) ELSE fTemp
    /\ fPc' = "raised"
    /\ UNCHANGED <<fContent, fOld, fOut>>
    /\ UNCHANGED <<earlyVars, saveRest>>

NextSave ==
    \/ SaveMkstemp
    \/ SaveWrite
    \/ SaveReplace
    \/ SaveCleanup

SpecSave == InitSave /\ [][NextSave]_vars

(***************************************************************************)
(* MarkdownFormatter.format_with_sections and _structure_petition: one call *)
(* with a text and the metadata of the caller.                             *)
(***************************************************************************)
\* str.upper
upper(s) == [i \in 1..Len(s) |-> UpperChar(s[i])]

\* sub in s, of two strings
str_in(sub, s) == \E i \in 1..(Len(s) + 1) : MatchAt(s, i, sub)

\* f"\n### {section}\n"
section_header(section) == <<"\n", "#", "#", "#", " ">> \o section \o <<"\n">>

\* the inner loop of _structure_petition for one section: every line that
\* holds the title, whatever the case, becomes the header of the section
structure_section(lines, section) ==
    [i \in 1..Len(lines) |->
        IF str_in(upper(section), upper(lines[i]))
        THEN section_header(section)
        ELSE lines[i]]

\* the outer loop of _structure_petition, from section k on
RECURSIVE structure_sections(_, _, _)
structure_sections(lines, sections, k) ==
    IF k > Len(sections) THEN lines
    ELSE structure_sections(structure_section(lines, sections[k]), sections, k + 1)

\* MarkdownFormatter._structure_petition
structure_petition(text, metadata) ==
    IF metadata.sections # <<>>
    THEN join(<<"\n">>, structure_sections(split_lines(text), metadata.sections, 1))
    ELSE text

\* the title of the document
section_title(metadata) ==
    IF metadata.process_number # <<>>
    THEN <<"#", " ", "P", "r", "o", "c", "e", "s", "s", "o", " ">> \o metadata.process_number \o <<"\n">>
    ELSE <<"#", " ", "D", "o", "c", "u", "m", "e", "n", "t", "o", " ", "P", "r", "o", "c", "e", "s", "s", "u", "a", "l", "\n">>

\* the metadata block: nothing when format_metadata_as_markdown returns ""
metadata_block(metadata_md) ==
    IF metadata_md # <<>>
    THEN << <<"#", "#", " ", "M", "e", "t", "a", "d", "a", "d", "o", "s", "\n">>, metadata_md, <<"\n", "-", "-", "-", "\n">> >>
    ELSE <<>>

\* the heading of the kind of document
kind_heading(metadata) ==
    IF metadata.is_initial_petition THEN <<"#", "#", " ", "P", "e", "t", "i", "ç", "ã", "o", " ", "I", "n", "i", "c", "i", "a", "l", "\n">>
    ELSE IF metadata.is_decision THEN <<"#", "#", " ", "D", "e", "c", "i", "s", "ã", "o", "\n">>
    ELSE IF metadata.is_certificate THEN <<"#", "#", " ", "C", "e", "r", "t", "i", "d", "ã", "o", "\n">>
    ELSE <<"#", "#", " ", "T", "e", "x", "t", "o", " ", "I", "n", "t", "e", "g", "r", "a", "l", "\n">>

\* the body under the heading: only an initial petition is structured
kind_body(text, metadata) ==
    IF metadata.is_initial_petition THEN structure_petition(text, metadata)
    ELSE text

\* MarkdownFormatter.format_with_sections, given what
\* format_metadata_as_markdown returned for the metadata
format_with_sections(text, metadata, metadata_md) ==
    join(<<"\n">>,
         << section_title(metadata) >> \o metadata_block(metadata_md)
            \o << kind_heading(metadata), kind_body(text, metadata) >>)

\* titles of sections of a petition
SectionTitles == {<<"D", "O", "S", " ", "F", "A", "T", "O", "S">>, <<"D", "O", " ", "D", "I", "R", "E", "I", "T", "O">>}

\* lines of a petition: the two headings, one of them in another case, a line
\* of the narrative that names a section, a plain line and an empty one
SectionLines ==
    {<<"D", "O", "S", " ", "F", "A", "T", "O", "S">>, <<"D", "O", " ", "D", "I", "R", "E", "I", "T", "O">>, <<"D", "o", "s", " ", "F", "a", "t", "o", "s">>,
     <<"x", " ", "D", "O", "S", " ", "F", "A", "T", "O", "S">>, <<"x">>, <<>>}

\* the texts: one to MaxSectionLines lines
SectionTexts ==
    {join(<<"\n">>, ls) : ls \in UNION {[1..n -> SectionLines] : n \in 1..MaxSectionLines}}

\* metadata.sections: titles in some order, none twice
SectionLists ==
    {ss \in UNION {[1..n -> SectionTitles] : n \in 0..MaxSections} :
        \A i, j \in 1..Len(ss) : i # j => ss[i] # ss[j]}

\* the fields of DocumentMetadata that format_with_sections reads
SectionMetadata ==
    [process_number : {<<>>, <<"1">>},
     sections : SectionLists,
     is_initial_petition : BOOLEAN,
     is_decision : BOOLEAN,
     is_certificate : BOOLEAN]

\* what format_metadata_as_markdown may return: "" or a list of fields
MetadataMarkdowns == {<<>>, <<"-", " ", "a">>}

InitSections ==
    /\ secText \in SectionTexts
    /\ secMetadata \in SectionMetadata
    /\ secMarkdown = <<>>
    /\ secOut = <<>>
    /\ secPc = "called"
    /\ EarlyIdle
    /\ SectionsRestIdle

\* the call runs to its return
FormatWithSections ==
    /\ secPc = "called"
    /\ \E metadata_md \in MetadataMarkdowns :
          /\ secMarkdown' = metadata_md
          /\ secOut' = format_with_sections(secText, secMetadata, metadata_md)
    /\ secPc' = "returned"
    /\ UNCHANGED <<secText, secMetadata>>
    /\ UNCHANGED <<earlyVars, secRest>>

NextSections ==
    \/ FormatWithSections

SpecSections == InitSections /\ [][NextSections]_vars

(***************************************************************************)
(* What the claims speak of.                                               *)
(***************************************************************************)
\* the case stage has just run: nPrev is what it was given, nText what it gave
CaseStageDone == nPc = "normalize_whitespace"
\* the whitespace stage has just run
WhitespaceStageDone == nPc = "final_cleanup"
\* normalize has returned nText
NormalizeDone == nPc = "done"

InLines == split_lines(nPrev)
OutLines == split_lines(nText)

\* a line the case stage classifies all-caps
AllCapsLine(line) == strip(line) # <<>> /\ is_all_caps(strip(line))

\* position p of line lies in a whole-word occurrence of a whitelisted acronym
InAcronym(line, p) ==
    \E i \in 1..p : AcronymAt(line, i) # <<>> /\ p < i + Len(AcronymAt(line, i))

\* position p of line starts the line or follows '.', '!' or '?' and whitespace
SentenceInitial(line, p) ==
    \/ p = 1
    \/ \E q \in 1..(p - 1) :
          /\ line[q] \in {".", "!", "?"}
          /\ q + 1 < p
          /\ \A r \in (q + 1)..(p - 1) : line[r] \in Whitespace

\* s holds sub somewhere
Contains(s, sub) == \E i \in 1..Len(s) : MatchAt(s, i, sub)

\* the characters of s that are not whitespace, in order
NonSpace(s) == SelectSeq(s, LAMBDA c : c \notin Whitespace)

RECURSIVE Flatten(_, _, _)
Flatten(parts, i, acc) ==
    IF i > Len(parts) THEN acc ELSE Flatten(parts, i + 1, acc \o parts[i])

\* the texts of the chunks returned, in chunk order
ChunkTexts == [i \in 1..Len(ragChunks) |-> ragChunks[i].text]

RagDone == ragPc = "done"

(***************************************************************************)
(* C1: normalize is idempotent: normalize(normalize(x)) = normalize(x).    *)
(* Stated of the run: when the second call returns, its result is the      *)
(* result of the first.                                                    *)
(***************************************************************************)
C1_Idempotent == (NormalizeDone /\ nPass = 2) => nText = nOut1

(***************************************************************************)
(* C2: in every line classified all-caps, each occurrence of a whitelisted *)
(* acronym comes out of case normalization in its upper-case form and the  *)
(* other words come out lower-cased (a sentence-initial letter may stay    *)
(* upper case).                                                            *)
(***************************************************************************)
C2_AcronymsKeptOthersLowered ==
    CaseStageDone =>
        /\ Len(OutLines) = Len(InLines)
        /\ \A i \in 1..Len(InLines) :
              AllCapsLine(InLines[i]) =>
                  /\ Len(OutLines[i]) = Len(InLines[i])
                  /\ \A p \in 1..Len(InLines[i]) :
                        IF InAcronym(InLines[i], p)
                        THEN OutLines[i][p] = InLines[i][p]
                        ELSE \/ OutLines[i][p] = LowerChar(InLines[i][p])
                             \/ /\ SentenceInitial(InLines[i], p)
                                /\ OutLines[i][p] = InLines[i][p]

(***************************************************************************)
(* C3: the acronym placeholders cannot collide with the content of a line: *)
(* restoring writes an acronym only where that acronym was substituted, so *)
(* an all-caps line comes out with the text it had, letter case apart.     *)
(***************************************************************************)
C3_NoPlaceholderCollision ==
    CaseStageDone =>
        /\ Len(OutLines) = Len(InLines)
        /\ \A i \in 1..Len(InLines) :
              AllCapsLine(InLines[i]) => lower(OutLines[i]) = lower(InLines[i])

(***************************************************************************)
(* C4: every line classified all-caps comes out of case normalization with *)
(* its first letter upper case, and with the first letter after '.', '!'   *)
(* or '?' and whitespace upper case, also when the line starts with        *)
(* whitespace.  The first letter is read here as the first character of    *)
(* the line that is not whitespace, when that is a letter.                 *)
(***************************************************************************)
C4_SentenceInitialsUpper ==
    CaseStageDone =>
        /\ Len(OutLines) = Len(InLines)
        /\ \A i \in 1..Len(InLines) :
              AllCapsLine(InLines[i]) =>
                  LET out == OutLines[i]
                      letters == {p \in 1..Len(out) : IsLetter(out[p])}
                  IN /\ (FirstNonSpace(out) > 0
                            /\ IsLetter(out[FirstNonSpace(out)])) =>
                           out[FirstNonSpace(out)] \in UpperSet
                     /\ \A p \in letters :
                           (p > 1 /\ SentenceInitial(out, p)) =>
                               out[p] \in UpperSet

(***************************************************************************)
(* C5: case normalization leaves every line that is blank or not           *)
(* classified all-caps character for character as it was, and changes      *)
(* neither the number nor the order of the lines.                          *)
(***************************************************************************)
C5_OtherLinesUnchanged ==
    CaseStageDone =>
        /\ Len(OutLines) = Len(InLines)
        /\ \A i \in 1..Len(InLines) :
              ~AllCapsLine(InLines[i]) => OutLines[i] = InLines[i]

\* the stage had a line with a lower-case letter to leave alone, and an
\* all-caps line that it rewrote
C5_Witness ==
    /\ CaseStageDone
    /\ \E i \in 1..Len(InLines) :
          /\ strip(InLines[i]) # <<>>
          /\ ~AllCapsLine(InLines[i])
    /\ \E j \in 1..Len(InLines) :
          /\ AllCapsLine(InLines[j])
          /\ j <= Len(OutLines)
          /\ OutLines[j] # InLines[j]

(***************************************************************************)
(* C6: whitespace normalization removes a non-blank line only when it is   *)
(* an exact duplicate of the line immediately before it; a non-blank line  *)
(* that follows a blank line or a different line is kept.  So the          *)
(* non-blank lines that come out are the trimmed non-blank lines that went *)
(* in, less those equal to the line just before them.                      *)
(***************************************************************************)
RECURSIVE KeptLines(_, _, _)
KeptLines(lines, i, acc) ==
    IF i > Len(lines) THEN acc
    ELSE KeptLines(lines, i + 1,
                   IF /\ strip(lines[i]) # <<>>
                      /\ (i = 1 \/ lines[i] # lines[i - 1])
                   THEN Append(acc, strip(lines[i])) ELSE acc)

C6_OnlyAdjacentDuplicatesRemoved ==
    WhitespaceStageDone =>
        KeptLines(OutLines, 1, <<>>)
            = KeptLines(whitespace_lines(nPrev), 1, <<>>)

(***************************************************************************)
(* C7: no line of the output of normalize has leading or trailing          *)
(* whitespace, and no line holds two consecutive spaces.                   *)
(***************************************************************************)
C7_LinesTrimmed ==
    NormalizeDone =>
        \A i \in 1..Len(OutLines) :
            LET line == OutLines[i]
            IN /\ line # <<>> =>
                     line[1] \notin Whitespace /\ line[Len(line)] \notin Whitespace
               /\ ~Contains(line, <<" ", " ">>)

(***************************************************************************)
(* C8: the output of normalize holds no run of three or more newlines and  *)
(* neither starts nor ends with whitespace.                                *)
(***************************************************************************)
C8_NoBlankRunsNoOuterSpace ==
    NormalizeDone =>
        /\ ~Contains(nText, <<"\n", "\n", "\n">>)
        /\ nText # <<>> =>
              nText[1] \notin Whitespace /\ nText[Len(nText)] \notin Whitespace

\* normalize was given a text that holds a run of three newlines and returned
\* one in which a single blank line is left
C8_Witness ==
    /\ NormalizeDone
    /\ nPass = 1
    /\ Contains(nIn, <<"\n", "\n", "\n">>)
    /\ Contains(nText, <<"\n", "\n">>)

(***************************************************************************)
(* C9: the texts of the chunks format_for_rag returns, concatenated in     *)
(* chunk order, hold exactly the non-whitespace characters of the source   *)
(* text, in the same order.                                                *)
(***************************************************************************)
C9_ChunkRoundTrip ==
    RagDone => NonSpace(Flatten(ChunkTexts, 1, <<>>)) = NonSpace(ragText)

\* a text without a sentence end, longer than chunk_size, was split by words
\* into three chunks or more
C9_Witness ==
    /\ RagDone
    /\ ragSize >= 2
    /\ Len(ragChunks) >= 3
    /\ ~Contains(ragText, <<".">>)

(***************************************************************************)
(* C10: the chunker never splits inside a word: the whitespace-delimited   *)
(* words read from the chunks in order are the whitespace-delimited words  *)
(* of the source text.  Stated for the chunk sizes of at least 1.           *)
(***************************************************************************)
C10_WordsKept ==
    (RagDone /\ ragSize >= 1) =>
        Flatten([i \in 1..Len(ragChunks) |-> split_words(ragChunks[i].text)],
                1, <<>>)
            = split_words(ragText)

(***************************************************************************)
(* C11: every chunk returned by format_for_rag has a text of at most       *)
(* chunk_size characters.  Stated for the chunk sizes of at least 1.        *)
(***************************************************************************)
C11_ChunksWithinSize ==
    (RagDone /\ ragSize >= 1) =>
        \A i \in 1..Len(ragChunks) : Len(ragChunks[i].text) <= ragSize

(***************************************************************************)
(* C13: empty or whitespace-only text gives no chunk; a text whose         *)
(* stripped length is at most chunk_size gives exactly one chunk, with     *)
(* chunk_index 0 and the stripped text as its text.                        *)
(***************************************************************************)
C13_DegenerateChunking ==
    RagDone =>
        /\ strip(ragText) = <<>> => ragChunks = <<>>
        /\ (strip(ragText) # <<>> /\ Len(strip(ragText)) <= ragSize) =>
              /\ Len(ragChunks) = 1
              /\ ragChunks[1].chunk_index = 0
              /\ ragChunks[1].text = strip(ragText)

\* a text with whitespace around it whose stripped length is exactly
\* chunk_size came back as one chunk
C13_Witness ==
    /\ RagDone
    /\ ragText # strip(ragText)
    /\ Len(strip(ragText)) = ragSize
    /\ Len(ragChunks) = 1
    /\ ragChunks[1].text = strip(ragText)

(***************************************************************************)
(* C14: for every text and chunk_size the chunks are numbered 0, 1, 2, ... *)
(* in list order, no chunk has an empty text, and the chunk_index of a     *)
(* chunk equals the chunk_index inside its metadata snapshot.              *)
(***************************************************************************)
C14_SequentialIndices ==
    RagDone =>
        \A i \in 1..Len(ragChunks) :
            /\ ragChunks[i].chunk_index = i - 1
            /\ ragChunks[i].text # <<>>
            /\ ragChunks[i].metadata.chunk_index = ragChunks[i].chunk_index

\* three chunks or more, some flushed by the sentence loop and some by the
\* word loop
C14_Witness ==
    /\ RagDone
    /\ Len(ragChunks) >= 3
    /\ Contains(ragText, <<".">>)
    /\ \E i \in 1..Len(ragChunks) : Len(ragChunks[i].text) > ragSize

(***************************************************************************)
(* C15: each chunk carries its own metadata snapshot, holding the          *)
(* process_number, the joined document_ids, the court, the author and the  *)
(* defendant of the given metadata; a write to the snapshot of one chunk   *)
(* changes neither the snapshot of another chunk nor the DocumentMetadata  *)
(* record.                                                                 *)
(***************************************************************************)
C15_SnapshotsIndependent ==
    /\ RagDone =>
          \A i \in 1..Len(ragChunks) :
              /\ ragChunks[i].metadata.process_number = or_empty(ragMeta.process_number)
              /\ ragChunks[i].metadata.document_ids = join(<<",">>, ragMeta.document_ids)
              /\ ragChunks[i].metadata.court = or_empty(ragMeta.court)
              /\ ragChunks[i].metadata.author = or_empty(ragMeta.author)
              /\ ragChunks[i].metadata.defendant = or_empty(ragMeta.defendant)
    /\ ragPc = "mutated" =>
          /\ ragMeta \in RagMetas
          /\ Cardinality({i \in 1..Len(ragChunks) :
                \E key \in SnapshotKeys :
                    ragChunks[i].metadata[key] \in SnapshotValues}) <= ragMuts

\* the caller wrote to the snapshot of one of three chunks or more
C15_Witness ==
    /\ ragPc = "mutated"
    /\ Len(ragChunks) >= 3
    /\ ragMeta.court # None
    /\ \E i \in 1..Len(ragChunks) : ragChunks[i].metadata.court = <<"x">>

(***************************************************************************)
(* C17: extract_document_ids returns each 'Num. <digits>' id once, in the  *)
(* order of first occurrence; extract_document_ids_with_positions returns  *)
(* one record per physical occurrence, in text order; the ids of the       *)
(* records, later repeats removed, are the result of extract_document_ids. *)
(***************************************************************************)
\* where an id token starts in idxText
IdOccurrences ==
    {i \in 1..Len(idxText) :
        /\ MatchAt(idxText, i, <<"N", "u", "m", ".">>)
        /\ LET d == SkipIn(idxText, i + 4, Whitespace)
           IN d <= Len(idxText) /\ idxText[d] \in Digits}

\* the k-th smallest element of a set of numbers
Kth(S, k) == CHOOSE j \in S : Cardinality({i \in S : i <= j}) = k

\* the records whose id no earlier record has
FirstRecords ==
    {k \in 1..Len(idxPositions) :
        \A j \in 1..(k - 1) : idxPositions[j].id # idxPositions[k].id}

C17_IdsOncePositionsPerOccurrence ==
    idxPc \in {"table", "type", "done"} =>
        /\ \A i, j \in 1..Len(idxIds) : idxIds[i] = idxIds[j] => i = j
        /\ Len(idxPositions) = Cardinality(IdOccurrences)
        /\ \A k \in 1..Len(idxPositions) :
              LET at == Kth(IdOccurrences, k)
                  digits == SkipIn(idxText, at + 4, Whitespace)
              IN /\ idxPositions[k].position = digits - 1
                 /\ idxPositions[k].id =
                        SubSeq(idxText, digits,
                               SkipIn(idxText, digits, Digits) - 1)
        /\ Len(idxIds) = Cardinality(FirstRecords)
        /\ \A k \in 1..Len(idxIds) :
              idxIds[k] = idxPositions[Kth(FirstRecords, k)].id

\* a text in which an id comes back after another id
C17_Witness ==
    /\ idxPc = "done"
    /\ Len(idxPositions) = 3
    /\ Len(idxIds) = 2
    /\ idxPositions[1].id = idxPositions[3].id

(***************************************************************************)
(* C19: generate_index_table gives exactly one table row per entry of      *)
(* metadata.document_positions, in the same order (a repeated id gives a   *)
(* repeated row), and each row links to generate_anchor of its entry's id. *)
(***************************************************************************)
\* the lines of the table after the four lines of its head: the k-th row
\* stands between the (k+3)-th line end and the next one, or the end
TableRows ==
    LET ends == {i \in 1..Len(idxTable) : idxTable[i] = "\n"}
        n == Cardinality(ends)
    IN [k \in 1..(n - 3) |->
           SubSeq(idxTable, Kth(ends, k + 3) + 1,
                  IF k + 3 = n THEN Len(idxTable) ELSE Kth(ends, k + 4) - 1)]

C19_OneRowPerPosition ==
    idxPc \in {"type", "done"} =>
        /\ Len(TableRows) = Len(idxPositions)
        /\ \A k \in 1..Len(idxPositions) :
              /\ is_in(<<" ">> \o idxPositions[k].id \o <<" ", "|">>, TableRows[k])
              /\ is_in(<<"(", "#">> \o generate_anchor(idxPositions[k].id) \o <<")">>,
                       TableRows[k])

\* a table with two rows for the same id
C19_Witness ==
    /\ idxPc = "done"
    /\ Len(idxPositions) >= 2
    /\ idxPositions[1].id = idxPositions[2].id
    /\ Len(TableRows) >= 2
    /\ is_in(<<"(", "#", "d", "o", "c", "-", "1", ")">>, TableRows[2])

(***************************************************************************)
(* C20: detect_type returns the label of the first rule, in the declared   *)
(* order, whose pattern occurs in the lower-cased context, so a context    *)
(* with 'petição inicial' gives 'Petição Inicial' and not 'Petição'; it    *)
(* returns 'Documento' when no rule matches.                               *)
(***************************************************************************)
\* the rules whose pattern occurs in the lower-cased idxText
MatchingRules ==
    {k \in 1..Len(TYPE_PATTERNS) : re_search(TYPE_PATTERNS[k], lower(idxText))}

C20_FirstRuleWins ==
    idxPc = "done" =>
        /\ MatchingRules = {} =>
              idxType = <<"D", "o", "c", "u", "m", "e", "n", "t", "o">>
        /\ MatchingRules # {} =>
              idxType = TYPE_PATTERNS[Kth(MatchingRules, 1)].doc_type
        /\ is_in(<<"p", "e", "t", "i", "ç", "ã", "o", " ", "i", "n", "i", "c", "i", "a", "l">>,
                 lower(idxText)) =>
              idxType = <<"P", "e", "t", "i", "ç", "ã", "o", " ", "I", "n", "i", "c", "i", "a", "l">>

\* a context that the first and the second rule both match
C20_Witness ==
    /\ idxPc = "done"
    /\ {1, 2} \subseteq MatchingRules
    /\ idxType = TYPE_PATTERNS[1].doc_type

(***************************************************************************)
(* C12: a chunk_size that is not a positive integer above the configured   *)
(* minimum is rejected with an error before any chunk is produced, for     *)
(* every text, the empty one included.  Stated for the sizes that are not  *)
(* positive, which no minimum admits, in a job of the worker that asks for *)
(* chunks.                                                                 *)
(***************************************************************************)
C12_InvalidChunkSizeRejected ==
    (/\ pPc = "done"
     /\ pEntry = "worker"
     /\ pOpts.exists
     /\ pOpts.chunk_for_rag
     /\ pOpts.chunk_size <= 0)
        => pStatus.status = "failed" /\ pResult.kind = "error"

(***************************************************************************)
(* C16: in every run of the worker task and of the command line that       *)
(* normalizes the text, the document positions stored in the metadata are  *)
(* those of the raw text read from the PDF, not of the normalized text.    *)
(***************************************************************************)
C16_PositionsFromRawText ==
    (/\ pPc = "done"
     /\ pEntry \in {"worker", "cli"}
     /\ pOpts.normalize
     /\ pMeta # NoMetadata)
        => pMeta.document_positions = extract_document_ids_with_positions(pRaw)

(***************************************************************************)
(* C18: the DocumentMetadata record is read-only once MetadataParser.parse *)
(* has returned it: whatever runs afterwards leaves every field as parse   *)
(* returned it.                                                            *)
(***************************************************************************)
C18_MetadataReadOnly ==
    pParsed # NoMetadata => pMeta = pParsed

(***************************************************************************)
(* C21: generate_anchor(id) is "doc-" followed by id, and                  *)
(* generate_cross_reference(id) is "[#" id "](#" anchor of id ")"; calls   *)
(* with the same id return the same value and calls of generate_anchor     *)
(* with distinct ids return distinct anchors.                              *)
(***************************************************************************)
C21_AnchorsAndCrossReferences ==
    \A i \in 1..Len(aLog) :
        /\ aLog[i].call = "generate_anchor" =>
              aLog[i].result = <<"d", "o", "c", "-">> \o aLog[i].doc_id
        /\ aLog[i].call = "generate_cross_reference" =>
              aLog[i].result = <<"[", "#">> \o aLog[i].doc_id
                                  \o <<"]", "(", "#", "d", "o", "c", "-">>
                                  \o aLog[i].doc_id \o <<")">>
        /\ \A j \in 1..Len(aLog) :
              /\ (aLog[i].call = aLog[j].call /\ aLog[i].doc_id = aLog[j].doc_id)
                    => aLog[i].result = aLog[j].result
              /\ (/\ aLog[i].call = "generate_anchor"
                  /\ aLog[j].call = "generate_anchor"
                  /\ aLog[i].doc_id # aLog[j].doc_id)
                    => aLog[i].result # aLog[j].result

\* the same id asked twice for its anchor, another id asked once, and a
\* cross reference made
C21_Witness ==
    \E i, j, k \in 1..Len(aLog) :
        /\ i < j
        /\ aLog[i].call = "generate_anchor" /\ aLog[j].call = "generate_anchor"
        /\ aLog[k].call = "generate_cross_reference"
        /\ aLog[i].doc_id # aLog[j].doc_id
        /\ aLog[k].doc_id = aLog[i].doc_id
        /\ aLog[k].doc_id # <<>>

(***************************************************************************)
(* C22: once POST /extract has returned the job id with status queued, and *)
(* until the job is deleted, GET /jobs/{job_id} answers with the status of *)
(* the job and never with 404; the status is queued until a worker has     *)
(* taken the job.                                                          *)
(***************************************************************************)
C22_JobTrackedFromCreation ==
    (jStatusResp # NoResponse /\ jDel = "idle")
        => /\ jStatusResp.response.code = 200
           /\ jStatusResp.queue = "queued"
                 => jStatusResp.response.status = "queued"

(***************************************************************************)
(* C23: whenever GET /jobs/{job_id} reports status finished,               *)
(* GET /jobs/{job_id}/result returns the stored result and not 404.        *)
(* Stated for a job that no DELETE has touched.                            *)
(***************************************************************************)
C23_FinishedJobHasResult ==
    (/\ jResultResp # NoResponse
     /\ jDel = "idle"
     /\ jResultResp.status.code = 200
     /\ jResultResp.status.status = "finished")
        => jResultResp.response.code = 200

(***************************************************************************)
(* C26: once DELETE /jobs/{job_id} has returned success, GET /jobs/{job_id}*)
(* and GET /jobs/{job_id}/result answer 404, also when a worker is still   *)
(* running the task of the job.                                            *)
(***************************************************************************)
C26_DeleteIsFinal ==
    jDel = "done"
        => /\ jStatusResp # NoResponse => jStatusResp.response.code = 404
           /\ jResultResp # NoResponse => jResultResp.response.code = 404

(***************************************************************************)
(* C30: started_at of a job is the time its task first reported status     *)
(* started; the later progress updates of the task leave it unchanged.     *)
(* Stated for a job that no DELETE has touched.                            *)
(***************************************************************************)
C30_StartedAtKept ==
    (jHash # NoJob /\ jDel = "idle" /\ jFirstStarted # NoTime)
        => jHash.started_at = jFirstStarted

(***************************************************************************)
(* C24: for an API key with limits, the number of requests that the        *)
(* middleware hands to the application within one minute never exceeds     *)
(* rate_limit_per_minute, and within one hour never rate_limit_per_hour,   *)
(* whatever the interleaving of the requests.                              *)
(***************************************************************************)
C24_RateLimitUnderConcurrency ==
    rLimits # NoLimits
        => /\ rPassed <= rLimits.per_minute
           /\ rPassed <= rLimits.per_hour

(***************************************************************************)
(* C25: the last admin API key cannot be deleted: after any sequence of    *)
(* delete_api_key requests, concurrent ones included, a key with is_admin  *)
(* set is still in the table.                                              *)
(***************************************************************************)
C25_LastAdminKeyKept ==
    kAdmins # {} => kKeys \cap kAdmins # {}

(***************************************************************************)
(* C27: for every path string given to save, load, delete, exists or       *)
(* list_files (relative, with "..", or absolute), the location of the file *)
(* system that is read or written lies inside base_path.                   *)
(***************************************************************************)
C27_NoDirectoryTraversal ==
    sLast # NoAccess => IsAbove(BasePath, sLast.location)

HeadingTitles(line, metadata) ==
    {metadata.sections[k] : k \in {j \in 1..Len(metadata.sections) :
        upper(strip(line)) = upper(metadata.sections[j])}}

\* the text with the lines of the set H written as headers of their sections
WithHeaders(lines, H, metadata) ==
    join(<<"\n">>,
         [i \in 1..Len(lines) |->
             IF i \in H
             THEN section_header(CHOOSE t \in HeadingTitles(lines[i], metadata) : TRUE)
             ELSE lines[i]])

C29_SectionsKeepContent ==
    (secPc = "returned" /\ secMetadata.is_initial_petition) =>
        LET lines == split_lines(secText)
            headings == {i \in 1..Len(lines) : HeadingTitles(lines[i], secMetadata) # {}}
        IN \E H \in SUBSET headings :
              secOut = join(<<"\n">>,
                            << section_title(secMetadata) >>
                               \o metadata_block(secMarkdown)
                               \o << kind_heading(secMetadata),
                                     WithHeaders(lines, H, secMetadata) >>)
====
